---------------------------- MODULE Spec2Model ----------------------------
(***************************************************************************)
(* Model of the accessibility-snapshot filtering tool of corpo             *)
(* (snapshot_get_and_filter) together with the variable store it reads     *)
(* from and writes to.                                                     *)
(*                                                                         *)
(* Strings are sequences of one-character strings, so that the regular     *)
(* expressions of parseDescriptor, toLowerCase and trim are computed       *)
(* character by character.  The text held by a variable is a record        *)
(* naming what the decoder (@std/yaml parse) makes of it.                  *)
(***************************************************************************)
EXTENDS Integers, Sequences, FiniteSets, TLC

VARIABLES variables, secrets, lastCall, lastResult, runner, mcp

vars == <<variables, secrets, lastCall, lastResult, runner, mcp>>

----------------------------------------------------------------------------
(* Characters and string helpers                                           *)

LowerLetters ==
  <<"a","b","c","d","e","f","g","h","i","j","k","l","m",
    "n","o","p","q","r","s","t","u","v","w","x","y","z">>

UpperLetters ==
  <<"A","B","C","D","E","F","G","H","I","J","K","L","M",
    "N","O","P","Q","R","S","T","U","V","W","X","Y","Z">>

Digits == {"0","1","2","3","4","5","6","7","8","9"}

Range(f) == {f[i] : i \in DOMAIN f}

\* the class \w of the regular expressions
WordChars == Range(LowerLetters) \cup Range(UpperLetters) \cup Digits \cup {"_"}

\* the class \s of the regular expressions, and what trim() strips
Whitespace == {" ", "\t", "\n"}

Quote == "\""

\* String.prototype.toLowerCase, one character
LowerChar(c) ==
  IF c \in Range(UpperLetters)
  THEN LowerLetters[CHOOSE i \in 1..26 : UpperLetters[i] = c]
  ELSE c

toLowerCase(s) == [i \in 1..Len(s) |-> LowerChar(s[i])]

\* String.prototype.trim
trim(s) ==
  LET keep == {i \in 1..Len(s) : s[i] \notin Whitespace}
  IN  IF keep = {} THEN <<>>
      ELSE LET lo == CHOOSE i \in keep : \A j \in keep : i <= j
               hi == CHOOSE i \in keep : \A j \in keep : j <= i
           IN  SubSeq(s, lo, hi)

\* String.prototype.includes
includes(s, sub) ==
  \E i \in 0..(Len(s) - Len(sub)) : SubSeq(s, i + 1, i + Len(sub)) = sub

\* String.prototype.startsWith, for a single character
startsWith(s, c) == Len(s) > 0 /\ s[1] = c

\* first index >= i of s that holds character c, Len(s)+1 when there is none
RECURSIVE IndexFrom(_, _, _)
IndexFrom(s, i, c) ==
  IF i > Len(s) THEN Len(s) + 1
  ELSE IF s[i] = c THEN i
  ELSE IndexFrom(s, i + 1, c)

\* first index >= i of s that holds a character outside S
RECURSIVE SkipWhile(_, _, _)
SkipWhile(s, i, S) ==
  IF i <= Len(s) /\ s[i] \in S THEN SkipWhile(s, i + 1, S) ELSE i

----------------------------------------------------------------------------
(* parseDescriptor                                                         *)

GenericRole == <<"g","e","n","e","r","i","c">>

TrueValue == <<"t","r","u","e">>

\* descriptor.match(/^(\w+)/)
ParseRole(d) ==
  LET n == SkipWhile(d, 1, WordChars) - 1
  IN  IF n >= 1 THEN SubSeq(d, 1, n) ELSE GenericRole

\* TextMatchAt for an expression without the leading \s+
TextMatchAtNoBlank(d, i) ==
  IF d[i] # Quote THEN <<0, 0>>
  ELSE LET k == IndexFrom(d, i + 1, Quote)
       IN  IF k <= Len(d) /\ k > i + 1 THEN <<i, k>> ELSE <<0, 0>>

\* the match of /\s+"([^"]+)"/ that starts at index i: <<j, k>> are the
\* indexes of the opening and the closing quote, <<0, 0>> when it fails
TextMatchAt(d, i) ==
  IF d[i] \notin Whitespace THEN <<0, 0>>
  ELSE LET j == SkipWhile(d, i, Whitespace)
       IN  IF j > Len(d) \/ d[j] # Quote THEN <<0, 0>>
           ELSE LET k == IndexFrom(d, j + 1, Quote)
                IN  IF k <= Len(d) /\ k > j + 1 THEN <<j, k>> ELSE <<0, 0>>

\* descriptor.match(/\s+"([^"]+)"/): leftmost match, "" when there is none
ParseText(d) ==
  LET starts == {i \in 1..Len(d) : TextMatchAt(d, i) # <<0, 0>>}
  IN  IF starts = {} THEN <<>>
      ELSE LET i  == CHOOSE a \in starts : \A b \in starts : a <= b
               jk == TextMatchAt(d, i)
           IN  SubSeq(d, jk[1] + 1, jk[2] - 1)

\* the key whose assignment on an object literal is the setter of
\* Object.prototype.__proto__
ProtoKey == <<"_","_","p","r","o","t","o","_","_">>

\* attributes[key] = value on a Record<string, string> made with {}: the
\* setter of __proto__ ignores a value that is a string, no property is made
SetAttr(attrs, k, v) ==
  IF k = ProtoKey THEN attrs
  ELSE [x \in (DOMAIN attrs) \cup {k} |-> IF x = k THEN v ELSE attrs[x]]

EmptyAttrs == [x \in {} |-> <<>>]

\* the body of the while loop over attrRegex matches
AttrOfPart(attrs, part) ==
  LET eqIndex == IndexFrom(part, 1, "=")
  IN  IF eqIndex > Len(part)
      THEN SetAttr(attrs, trim(part), TrueValue)
      ELSE SetAttr(attrs, trim(SubSeq(part, 1, eqIndex - 1)),
                          trim(SubSeq(part, eqIndex + 1, Len(part))))

\* the loop of attrRegex.exec with /\[([^\]]+)\]/g, from index pos on
RECURSIVE ParseAttrs(_, _, _)
ParseAttrs(d, pos, attrs) ==
  LET open == IndexFrom(d, pos, "[")
  IN  IF open > Len(d) THEN attrs
      ELSE LET close == IndexFrom(d, open + 1, "]")
           IN  IF close > Len(d) THEN attrs
               ELSE IF close = open + 1 THEN ParseAttrs(d, open + 1, attrs)
               ELSE ParseAttrs(d, close + 1,
                               AttrOfPart(attrs, SubSeq(d, open + 1, close - 1)))

parseDescriptor(d) ==
  [role |-> ParseRole(d), text |-> ParseText(d),
   attributes |-> ParseAttrs(d, 1, EmptyAttrs)]

----------------------------------------------------------------------------
(* The decoded document: what parse() of @std/yaml returns.  A value is a  *)
(* string, a list, a mapping (keys and values in document order) or any    *)
(* other scalar (number, boolean, null).                                   *)

YStr(s) == [t |-> "string", s |-> s]
YList(items) == [t |-> "array", items |-> items]
YMap(keys, vals) == [t |-> "object", keys |-> keys, vals |-> vals]
YOther == [t |-> "other"]

isPlainObject(value) == value.t = "object"

\* isDescriptorObject without the test of the leading "/"
isDescriptorObjectAnyKey(obj) ==
  IF Len(obj.keys) # 1 THEN FALSE
  ELSE obj.vals[1].t = "array"

isDescriptorObject(obj) ==
  IF Len(obj.keys) # 1 THEN FALSE
  ELSE ~startsWith(obj.keys[1], "/") /\ obj.vals[1].t = "array"

MkNode(parsed, children, raw) ==
  [role |-> parsed.role, text |-> parsed.text, attributes |-> parsed.attributes,
   children |-> children, rawDescriptor |-> raw]

RECURSIVE buildNodes(_)
RECURSIVE BuildItems(_, _, _)

\* the for loop of buildNodes over an array: nodes.push(...buildNodes(item))
\* for the items lo..hi in order (the range is halved to keep the evaluation
\* shallow on long lists)
BuildItems(items, lo, hi) ==
  IF lo > hi THEN <<>>
  ELSE IF lo = hi THEN buildNodes(items[lo])
  ELSE LET mid == (lo + hi) \div 2
       IN  BuildItems(items, lo, mid) \o BuildItems(items, mid + 1, hi)

buildNodes(input) ==
  IF input.t = "string"
  THEN <<MkNode(parseDescriptor(input.s), <<>>, input.s)>>
  ELSE IF input.t = "array"
  THEN BuildItems(input.items, 1, Len(input.items))
  ELSE IF isPlainObject(input)
  THEN IF isDescriptorObject(input)
       THEN LET descriptor == input.keys[1]
                value      == input.vals[1]
                children   == IF value.t = "array" THEN buildNodes(value) ELSE <<>>
            IN  <<MkNode(parseDescriptor(descriptor), children, descriptor)>>
       ELSE <<>>
  ELSE <<>>

----------------------------------------------------------------------------
(* new RegExp(pattern, flags) and RegExp.prototype.test.  The syntax that  *)
(* is modelled: literal characters, ".", "^", "$", character classes       *)
(* "[...]" and "[^...]" of literal characters, and the quantifiers "*",    *)
(* "+" and "?" (lazy or not) on one character; the patterns of the calls   *)
(* are written in it.                                                      *)

\* the characters that are more than a literal
RegexMeta == {"^", "$", ".", "[", "]", "*", "+", "?", "(", ")", "{", "}", "|", "\\"}

Quantifiers == {"*", "+", "?"}

LineTerminators == {"\n", "\r"}

\* the flags a regular expression takes
FlagChars == {"d", "g", "i", "m", "s", "u", "v", "y"}

\* whether RegExp accepts the flags: known letters, each once, not u with v
ValidFlags(flags) ==
  /\ \A i \in 1..Len(flags) : flags[i] \in FlagChars
  /\ \A i, j \in 1..Len(flags) : i # j => flags[i] # flags[j]
  /\ ~("u" \in Range(flags) /\ "v" \in Range(flags))

HasFlag(flags, f) == f \in Range(flags)

Assertion(t) == [t |-> t, set |-> {}, neg |-> FALSE, q |-> "1"]
Atom(set, neg) == [t |-> "atom", set |-> set, neg |-> neg, q |-> "1"]

\* the quantifier that follows the atom ending before index i, and the index
\* after it (a "?" after a quantifier makes it lazy)
QuantifierAt(p, i) ==
  IF i <= Len(p) /\ p[i] \in Quantifiers
  THEN [q |-> p[i], next |-> IF i + 1 <= Len(p) /\ p[i + 1] = "?" THEN i + 2 ELSE i + 1]
  ELSE [q |-> "1", next |-> i]

\* RegexItems of a pattern that is not a regular expression
BadPattern == [ok |-> FALSE, items |-> <<>>]

\* RegexToken of a pattern that is not a regular expression
BadToken == [ok |-> FALSE, item |-> Assertion("none"), next |-> 0]

\* an item and the index after it
Token(item, next) == [ok |-> TRUE, item |-> item, next |-> next]

\* the atom with the quantifier that follows it at index after
WithQuantifier(atom, qa) == Token([atom EXCEPT !.q = qa.q], qa.next)

Quantified(p, atom, after) == WithQuantifier(atom, QuantifierAt(p, after))

\* the character class that opens at index i
ClassToken(p, i) ==
  LET neg   == i + 1 <= Len(p) /\ p[i + 1] = "^"
      first == IF neg THEN i + 2 ELSE i + 1
      close == IndexFrom(p, first, "]")
  IN  IF close > Len(p) THEN BadToken
      ELSE Quantified(p, Atom(Range(SubSeq(p, first, close - 1)), neg), close + 1)

\* the item that starts at index i of the pattern
RegexToken(p, i, flags) ==
  CASE p[i] = "^" -> Token(Assertion("start"), i + 1)
    [] p[i] = "$" -> Token(Assertion("end"), i + 1)
    [] p[i] = "." ->
         Quantified(p, Atom(IF HasFlag(flags, "s") THEN {} ELSE LineTerminators, TRUE), i + 1)
    [] p[i] = "[" -> ClassToken(p, i)
    [] p[i] = "]" /\ (HasFlag(flags, "u") \/ HasFlag(flags, "v")) -> BadToken
    [] p[i] \in RegexMeta \ {"^", "$", ".", "[", "]"} -> BadToken
    [] OTHER -> Quantified(p, Atom({p[i]}, FALSE), i + 1)

\* the item before the items of the rest of the pattern
Prepend(item, rest) ==
  IF rest.ok THEN [ok |-> TRUE, items |-> <<item>> \o rest.items] ELSE BadPattern

RECURSIVE RegexItems(_, _, _)

\* the items of the pattern from the item tok on
ItemsAfter(p, flags, tok) ==
  IF ~tok.ok THEN BadPattern
  ELSE Prepend(tok.item, RegexItems(p, tok.next, flags))

\* the pattern from index i on as a list of items
RegexItems(p, i, flags) ==
  IF i > Len(p) THEN [ok |-> TRUE, items |-> <<>>]
  ELSE ItemsAfter(p, flags, RegexToken(p, i, flags))

\* new RegExp(pattern, flags): the compiled expression, or the error thrown
Compiled(parsed, flags) ==
  IF ~ValidFlags(flags) \/ ~parsed.ok
  THEN [error |-> "SyntaxError", items |-> <<>>, flags |-> flags]
  ELSE [error |-> "", items |-> parsed.items, flags |-> flags]

RegExp(pattern, flags) == Compiled(RegexItems(pattern, 1, flags), flags)

\* whether the atom accepts character c
AtomAccepts(item, c, flags) ==
  LET member == IF HasFlag(flags, "i")
                THEN \E m \in item.set : LowerChar(m) = LowerChar(c)
                ELSE c \in item.set
  IN  IF item.neg THEN ~member ELSE member

\* the positions after one character accepted by the atom, from positions P
AtomStep(item, P, s, flags) ==
  {q + 1 : q \in {x \in P : x <= Len(s) /\ AtomAccepts(item, s[x], flags)}}

\* the positions after any number of characters accepted by the atom
RECURSIVE AtomClosure(_, _, _, _)
AtomClosure(item, P, s, flags) ==
  LET more == AtomStep(item, P, s, flags) \ P
  IN  IF more = {} THEN P ELSE AtomClosure(item, P \cup more, s, flags)

\* the positions where the item can end when it starts at one of P
ItemStep(item, P, s, flags) ==
  CASE item.t = "start" ->
         {q \in P : q = 1 \/ (HasFlag(flags, "m") /\ s[q - 1] \in LineTerminators)}
    [] item.t = "end" ->
         {q \in P : q = Len(s) + 1 \/ (HasFlag(flags, "m") /\ s[q] \in LineTerminators)}
    [] item.t = "atom" /\ item.q = "1" -> AtomStep(item, P, s, flags)
    [] item.t = "atom" /\ item.q = "?" -> P \cup AtomStep(item, P, s, flags)
    [] item.t = "atom" /\ item.q = "*" -> AtomClosure(item, P, s, flags)
    [] item.t = "atom" /\ item.q = "+" ->
         AtomClosure(item, AtomStep(item, P, s, flags), s, flags)

\* the positions where the items from index k on can end
RECURSIVE ItemsFrom(_, _, _, _, _)
ItemsFrom(items, k, P, s, flags) ==
  IF k > Len(items) \/ P = {} THEN P
  ELSE ItemsFrom(items, k + 1, ItemStep(items[k], P, s, flags), s, flags)

\* re.test(s) of a new expression (lastIndex 0): a match starts anywhere, at
\* the first character only with the flag y
RegExpTest(re, s) ==
  LET starts == IF HasFlag(re.flags, "y") THEN {1} ELSE 1..(Len(s) + 1)
  IN  \E p \in starts : ItemsFrom(re.items, 1, {p}, s, re.flags) # {}

----------------------------------------------------------------------------
(* The filter: textMatches, attributesMatch, findMatches, cloneNode        *)

\* text?: TextMatch
NoText == [kind |-> "absent"]
TextEquals(s) == [kind |-> "equals", arg |-> s]
TextContains(s) == [kind |-> "contains", arg |-> s]
\* flags undefined is written as the empty string (RegExp takes both as no flags)
TextRegex(pattern, flags) == [kind |-> "regex", arg |-> pattern, flags |-> flags]

\* role?: string | string[]
NoRole == [kind |-> "absent"]
RoleString(s) == [kind |-> "string", value |-> s]
RoleArray(ss) == [kind |-> "array", values |-> ss]

\* attributes?: Record<string, string>, the entries in insertion order
NoAttributes == [kind |-> "absent"]
Attributes(keys, vals) == [kind |-> "record", keys |-> keys, vals |-> vals]

\* maxResults?: number, undefined written 0 (both are falsy at the one use)
NoMaxResults == 0

\* A predicate evaluates to "true" or "false", or to the name of the error
\* it throws.
Bool(b) == IF b THEN "true" ELSE "false"

\* re.test(s) of the expression that new RegExp gave, or the error it threw
TestOrThrow(re, s) == IF re.error # "" THEN re.error ELSE Bool(RegExpTest(re, s))

\* textMatches that does not trim the argument of equals and contains
textMatchesArgNotTrimmed(candidate, matcher) ==
  IF matcher.kind = "absent" THEN "true"
  ELSE IF matcher.kind = "equals"
  THEN Bool(trim(toLowerCase(candidate)) = toLowerCase(matcher.arg))
  ELSE IF matcher.kind = "contains"
  THEN Bool(includes(trim(toLowerCase(candidate)), toLowerCase(matcher.arg)))
  ELSE IF matcher.kind = "regex"
  THEN TestOrThrow(RegExp(matcher.arg, matcher.flags), trim(toLowerCase(candidate)))
  ELSE "false"

\* textMatches that tests the expression on the text as written
textMatchesRegexOnRawText(candidate, matcher) ==
  IF matcher.kind = "absent" THEN "true"
  ELSE IF matcher.kind = "equals"
  THEN Bool(trim(toLowerCase(candidate)) = trim(toLowerCase(matcher.arg)))
  ELSE IF matcher.kind = "contains"
  THEN Bool(includes(trim(toLowerCase(candidate)), trim(toLowerCase(matcher.arg))))
  ELSE IF matcher.kind = "regex"
  THEN TestOrThrow(RegExp(matcher.arg, matcher.flags), trim(candidate))
  ELSE "false"

\* the text of a node is always a string (parseDescriptor sets "" when there
\* is no quoted segment), so the test candidate == null is never true
textMatches(candidate, matcher) ==
  IF matcher.kind = "absent" THEN "true"
  ELSE IF matcher.kind = "equals"
  THEN Bool(trim(toLowerCase(candidate)) = trim(toLowerCase(matcher.arg)))
  ELSE IF matcher.kind = "contains"
  THEN Bool(includes(trim(toLowerCase(candidate)), trim(toLowerCase(matcher.arg))))
  ELSE IF matcher.kind = "regex"
  THEN TestOrThrow(RegExp(matcher.arg, matcher.flags), trim(toLowerCase(candidate)))
  ELSE "false"

\* names that every object inherits from Object.prototype; their values are
\* functions and objects, not strings
ObjectPrototype ==
  { <<"c","o","n","s","t","r","u","c","t","o","r">>,
    <<"t","o","S","t","r","i","n","g">>,
    <<"t","o","L","o","c","a","l","e","S","t","r","i","n","g">>,
    <<"v","a","l","u","e","O","f">>,
    <<"h","a","s","O","w","n","P","r","o","p","e","r","t","y">>,
    <<"i","s","P","r","o","t","o","t","y","p","e","O","f">>,
    <<"p","r","o","p","e","r","t","y","I","s","E","n","u","m","e","r","a","b","l","e">>,
    <<"_","_","p","r","o","t","o","_","_">> }

\* k in candidate: own keys and inherited ones
In(k, candidate) == k \in DOMAIN candidate \/ k \in ObjectPrototype

\* candidate[k].toLowerCase().trim() !== v.toLowerCase().trim(), for an own key
ValueDiffers(have, v) == trim(toLowerCase(have)) # trim(toLowerCase(v))

\* the for loop of attributesMatch from entry i on; the value of an inherited
\* key has no toLowerCase, and calling it throws a TypeError
RECURSIVE AttributesLoop(_, _, _)
AttributesLoop(candidate, required, i) ==
  IF i > Len(required.keys) THEN "true"
  ELSE LET k == required.keys[i]
           v == required.vals[i]
       IN  IF ~In(k, candidate) THEN "false"
           ELSE IF k \notin DOMAIN candidate THEN "TypeError"
           ELSE IF ValueDiffers(candidate[k], v) THEN "false"
           ELSE AttributesLoop(candidate, required, i + 1)

attributesMatch(candidate, required) ==
  IF required.kind = "absent" THEN "true"
  ELSE AttributesLoop(candidate, required, 1)

\* const roles = ...: whether it is a Set, and its members
HasRoles(role) ==
  role.kind = "array" \/ (role.kind = "string" /\ role.value # <<>>)

Roles(role) ==
  IF role.kind = "array" THEN Range(role.values) ELSE {role.value}

\* cloneNode that copies one level only
cloneNodeShallow(node) ==
  [role |-> node.role, text |-> node.text, attributes |-> node.attributes,
   children |-> <<>>, rawDescriptor |-> node.rawDescriptor]

RECURSIVE cloneNode(_)
cloneNode(node) ==
  [role |-> node.role, text |-> node.text, attributes |-> node.attributes,
   children |-> [i \in 1..Len(node.children) |-> cloneNode(node.children[i])],
   rawDescriptor |-> node.rawDescriptor]

\* the condition of the if statement of visit, evaluated left to right
NodeMatches(node, filter) ==
  IF HasRoles(filter.role) /\ node.role \notin Roles(filter.role) THEN "false"
  ELSE LET t == textMatches(node.text, filter.text)
       IN  IF t # "true" THEN t
           ELSE attributesMatch(node.attributes, filter.attributes)

\* MatchCopy that leaves the attributes out of the copy
MatchCopyNoAttributes(node, filter) ==
  [role |-> node.role, text |-> node.text, attributes |-> EmptyAttrs,
   children |-> IF filter.includeSubtree
                THEN [i \in 1..Len(node.children) |-> cloneNode(node.children[i])]
                ELSE <<>>,
   rawDescriptor |-> node.rawDescriptor]

\* the copy that visit pushes
MatchCopy(node, filter) ==
  [role |-> node.role, text |-> node.text, attributes |-> node.attributes,
   children |-> IF filter.includeSubtree
                THEN [i \in 1..Len(node.children) |-> cloneNode(node.children[i])]
                ELSE <<>>,
   rawDescriptor |-> node.rawDescriptor]

\* StopAfterPush without the test of mode "first"
StopAfterPushNoFirst(results, filter) ==
  filter.maxResults # 0 /\ Len(results) >= filter.maxResults

\* StopAfterPush that compares with > instead of >=
StopAfterPushOffByOne(results, filter) ==
  \/ filter.mode = "first"
  \/ (filter.maxResults # 0 /\ Len(results) > filter.maxResults)

\* whether visit returns true right after pushing a copy
StopAfterPush(results, filter) ==
  \/ filter.mode = "first"
  \/ (filter.maxResults # 0 /\ Len(results) >= filter.maxResults)

\* The traversal state: the results so far, whether visit returned true, and
\* the error thrown ("" when none).
Acc(results, stop, error) == [results |-> results, stop |-> stop, error |-> error]

RECURSIVE visit(_, _, _)
RECURSIVE VisitRange(_, _, _, _, _)

\* a loop "for (n of nodes) { if (visit(n)) stop }" over the items lo..hi in
\* order; acc is the state before the loop, the value is the state after it
\* (the range is halved to keep the evaluation shallow on long lists)
VisitRange(nodes, lo, hi, acc, filter) ==
  IF lo > hi \/ acc.stop THEN acc
  ELSE IF lo = hi THEN visit(nodes[lo], acc.results, filter)
  ELSE LET mid == (lo + hi) \div 2
       IN  VisitRange(nodes, mid + 1, hi, VisitRange(nodes, lo, mid, acc, filter), filter)

VisitList(nodes, acc, filter) == VisitRange(nodes, 1, Len(nodes), acc, filter)

\* visit that pushes a node after its children
visitChildrenFirst(node, results, filter) ==
  LET m    == NodeMatches(node, filter)
      kids == VisitList(node.children, Acc(results, FALSE, ""), filter)
  IN  IF m \notin {"true", "false"} THEN Acc(results, TRUE, m)
      ELSE IF kids.stop \/ m = "false" THEN kids
      ELSE LET pushed == Append(kids.results, MatchCopy(node, filter))
           IN  Acc(pushed, StopAfterPush(pushed, filter), "")

\* visit that does not descend into a node it collected
visitSkipsMatched(node, results, filter) ==
  LET m == NodeMatches(node, filter)
  IN  IF m = "true"
      THEN LET pushed == Append(results, MatchCopy(node, filter))
           IN  Acc(pushed, StopAfterPush(pushed, filter), "")
      ELSE IF m = "false"
      THEN VisitList(node.children, Acc(results, FALSE, ""), filter)
      ELSE Acc(results, TRUE, m)

visit(node, results, filter) ==
  LET m == NodeMatches(node, filter)
  IN  IF m = "true"
      THEN LET pushed == Append(results, MatchCopy(node, filter))
           IN  IF StopAfterPush(pushed, filter)
               THEN Acc(pushed, TRUE, "")
               ELSE VisitList(node.children, Acc(pushed, FALSE, ""), filter)
      ELSE IF m = "false"
      THEN VisitList(node.children, Acc(results, FALSE, ""), filter)
      ELSE Acc(results, TRUE, m)

\* findMatches that keeps at most 150 matches
findMatchesDropping(nodes, filter) ==
  LET found == VisitList(nodes, Acc(<<>>, FALSE, ""), filter)
  IN  IF Len(found.results) > 150
      THEN [found EXCEPT !.results = SubSeq(@, 1, 150)]
      ELSE found

\* [results, stop, error]: the matches, or the error thrown
findMatches(nodes, filter) == VisitList(nodes, Acc(<<>>, FALSE, ""), filter)

----------------------------------------------------------------------------
(* JSON.stringify(matches, null, 2).length                                 *)

\* characters that JSON.stringify writes as a two-character escape
Escaped == {Quote, "\\", "\n", "\t"}

\* length of a string value: the quotes, the characters, the escapes
JsonStringLen(s) == 2 + Len(s) + Cardinality({i \in 1..Len(s) : s[i] \in Escaped})

\* an object of string members at indentation ind ("{}" when empty): each
\* member is a newline, ind + 2 spaces, the key, ": " and the value, members
\* are separated by commas, and the closing brace has its own line
RECURSIVE JsonMembersLen(_, _, _)
JsonMembersLen(attrs, todo, ind) ==
  IF todo = {} THEN 0
  ELSE LET k == CHOOSE x \in todo : TRUE
       IN  1 + (ind + 2) + JsonStringLen(k) + 2 + JsonStringLen(attrs[k])
             + JsonMembersLen(attrs, todo \ {k}, ind)

JsonAttributesLen(attrs, ind) ==
  IF DOMAIN attrs = {} THEN 2
  ELSE 1 + JsonMembersLen(attrs, DOMAIN attrs, ind)
         + (Cardinality(DOMAIN attrs) - 1) + 1 + ind + 1

RECURSIVE JsonNodeLen(_, _)
RECURSIVE JsonItemsLen(_, _, _, _)
RECURSIVE JsonArrayLen(_, _)

\* a node at indentation ind: the five members role, text, attributes,
\* children, rawDescriptor (keys with their quotes: 6, 6, 12, 10, 15)
JsonNodeLen(node, ind) ==
  LET m == 1 + (ind + 2)
  IN  1 + (m + 6 + 2 + JsonStringLen(node.role))
        + (m + 6 + 2 + JsonStringLen(node.text))
        + (m + 12 + 2 + JsonAttributesLen(node.attributes, ind + 2))
        + (m + 10 + 2 + JsonArrayLen(node.children, ind + 2))
        + (m + 15 + 2 + JsonStringLen(node.rawDescriptor))
        + 4 + 1 + ind + 1

\* the items lo..hi of an array at indentation ind, each on a new line
JsonItemsLen(nodes, lo, hi, ind) ==
  IF lo > hi THEN 0
  ELSE IF lo = hi THEN 1 + (ind + 2) + JsonNodeLen(nodes[lo], ind + 2)
  ELSE LET mid == (lo + hi) \div 2
       IN  JsonItemsLen(nodes, lo, mid, ind) + JsonItemsLen(nodes, mid + 1, hi, ind)

\* an array of nodes at indentation ind ("[]" when empty)
JsonArrayLen(nodes, ind) ==
  IF nodes = <<>> THEN 2
  ELSE 1 + JsonItemsLen(nodes, 1, Len(nodes), ind) + (Len(nodes) - 1) + 1 + ind + 1

\* the text JSON.stringify(matches, null, 2): the nodes it lists and its length
JsonStringify(matches) ==
  [kind |-> "json", matches |-> matches, length |-> JsonArrayLen(matches, 0)]

----------------------------------------------------------------------------
(* The variable store and what its texts decode to                         *)

\* a snapshot text, named by the document it decodes to; a and x are the
\* numbers of rows of the "rows" document
YamlText(doc, a, x) == [kind |-> "yaml", doc |-> doc, a |-> a, x |-> x]
\* the empty string
EmptyText == [kind |-> "empty"]
\* a text on which parse() throws an error with the given message
BadText(message) == [kind |-> "invalid", message |-> message]
\* variables.get(name) of a name that is not set
Undefined == [kind |-> "undefined"]

\* the decoded form of a node of a JSON text: a mapping of five keys
RECURSIVE DecodeNode(_)
DecodeNode(node) ==
  YMap(<< <<"r","o","l","e">>, <<"t","e","x","t">>,
          <<"a","t","t","r","i","b","u","t","e","s">>,
          <<"c","h","i","l","d","r","e","n">>,
          <<"r","a","w","D","e","s","c","r","i","p","t","o","r">> >>,
       << YStr(node.role), YStr(node.text),
          LET ks == DOMAIN node.attributes
              order == CHOOSE q \in [1..Cardinality(ks) -> ks] :
                         \A a, b \in DOMAIN q : a # b => q[a] # q[b]
          IN  YMap(order, [i \in DOMAIN order |-> YStr(node.attributes[order[i]])]),
          YList([i \in 1..Len(node.children) |-> DecodeNode(node.children[i])]),
          YStr(node.rawDescriptor) >>)

getVariable(name) ==
  IF name \in DOMAIN variables THEN variables[name] ELSE Undefined

\* setVariable that replaces the Map by one holding the new entry only
setVariableAlone(name, value) ==
  [n \in {name} |-> value]

setVariable(name, value) ==
  [n \in (DOMAIN variables) \cup {name} |-> IF n = name THEN value ELSE variables[n]]

----------------------------------------------------------------------------
(* Inputs: descriptor lines, documents, filters and calls                  *)

\* table
LineTable == <<"t","a","b","l","e">>

\* row "Item A" [kind=a]
LineRowA == <<"r","o","w"," ","\"","I","t","e","m"," ","A","\""," ","[","k","i","n","d","=","a","]">>

\* row "Item B" [kind=B]
LineRowB == <<"r","o","w"," ","\"","I","t","e","m"," ","B","\""," ","[","k","i","n","d","=","B","]">>

\* row "Another A" [kind=a]
LineRowC == <<"r","o","w"," ","\"","A","n","o","t","h","e","r"," ","A","\""," ","[","k","i","n","d","=","a","]">>

\* row "xy"
LineRowXY == <<"r","o","w"," ","\"","x","y","\"">>

\* heading "Login Page" [level=2] [checked]
LineHeading == <<"h","e","a","d","i","n","g"," ","\"","L","o","g","i","n"," ","P","a","g","e","\""," ","[","l","e","v","e","l","=","2","]"," ","[","c","h","e","c","k","e","d","]">>

\* heading "Sub" [level=3]
LineHeading3 == <<"h","e","a","d","i","n","g"," ","\"","S","u","b","\""," ","[","l","e","v","e","l","=","3","]">>

\* /url
LineUrl == <<"/","u","r","l">>

\* #
LineHash == <<"#">>

\* 'row'
WRow == <<"r","o","w">>

\* 'heading'
WHeading == <<"h","e","a","d","i","n","g">>

\* 'table'
WTable == <<"t","a","b","l","e">>

\* ' ITEM '
WItem == <<" ","I","T","E","M"," ">>

\* ' item a'
WItemA == <<" ","i","t","e","m"," ","a">>

\* 'login'
WLogin == <<"l","o","g","i","n">>

\* 'kind'
WKind == <<"k","i","n","d">>

\* 'Kind'
WKindUpper == <<"K","i","n","d">>

\* ' A '
WA == <<" ","A"," ">>

\* 'b'
WB == <<"b">>

\* 'level'
WLevel == <<"l","e","v","e","l">>

\* '2'
W2 == <<"2">>

\* 'toString'
WToString == <<"t","o","S","t","r","i","n","g">>

\* 'checked'
WChecked == <<"c","h","e","c","k","e","d">>

\* 'Item'
WItemUpper == <<"I","t","e","m">>

\* row "item b"
LineRowItemB == <<"r","o","w"," ","\"","i","t","e","m"," ","b","\"">>

\* row "Item A"
LineRowItemA == <<"r","o","w"," ","\"","I","t","e","m"," ","A","\"">>

\* row "Misc"
LineRowMisc == <<"r","o","w"," ","\"","M","i","s","c","\"">>

\* the pattern ^item [ab]$
PatternItemAB == <<"^","i","t","e","m"," ","[","a","b","]","$">>

\* the pattern ^$
PatternEmpty == <<"^","$">>

\* the pattern [ (a class that is not closed)
PatternUnclosed == <<"[">>

\* n times the value v
Repeat(v, n) == [i \in 1..n |-> v]

\* table: followed by the three rows of the chained-filtering scenario
DocTable ==
  YMap(<<LineTable>>, <<YList(<<YStr(LineRowA), YStr(LineRowB), YStr(LineRowC)>>)>>)

\* rows inside rows, a heading inside, a /url property and a number between
DocNested ==
  YList(<< YMap(<<LineRowA>>,
                <<YList(<< YStr(LineRowB),
                           YMap(<<LineRowC>>, <<YList(<<YStr(LineHeading)>>)>>),
                           YMap(<<LineUrl>>, <<YStr(LineHash)>>) >>)>>),
           YOther,
           YStr(LineHeading3),
           YMap(<<LineHeading>>, <<YList(<<YStr(LineRowA)>>)>>) >>)

\* table: followed by the three rows of the regex scenario
DocRegex ==
  YMap(<<LineTable>>,
       <<YList(<<YStr(LineRowItemA), YStr(LineRowItemB), YStr(LineRowMisc)>>)>>)

\* a single line
DocLine == YStr(LineHeading)

\* a key whose value is no list, a mapping of two keys, an empty list
DocNoNodes ==
  YList(<< YMap(<<LineRowA>>, <<YStr(LineRowB)>>),
           YMap(<<LineRowA, LineRowB>>, <<YList(<<>>), YList(<<>>)>>),
           YList(<<>>) >>)

\* table: followed by a times the row "Item A" and x times the row "xy";
\* the JSON text of all the rows has 2 + 162 * a + 122 * x characters
DocRows(a, x) ==
  YMap(<<LineTable>>,
       <<YList(Repeat(YStr(LineRowA), a) \o Repeat(YStr(LineRowXY), x))>>)

\* the document that a snapshot text decodes to
YamlDocument(raw) ==
  CASE raw.doc = "table"   -> DocTable
    [] raw.doc = "nested"  -> DocNested
    [] raw.doc = "regex"   -> DocRegex
    [] raw.doc = "line"    -> DocLine
    [] raw.doc = "noNodes" -> DocNoNodes
    [] raw.doc = "rows"    -> DocRows(raw.a, raw.x)

\* parse(raw): [ok, value] or [ok, message]
parse(raw) ==
  IF raw.kind = "yaml" THEN [ok |-> TRUE, value |-> YamlDocument(raw)]
  ELSE IF raw.kind = "empty" THEN [ok |-> TRUE, value |-> YOther]
  ELSE IF raw.kind = "json"
  THEN [ok |-> TRUE,
        value |-> YList([i \in 1..Len(raw.matches) |-> DecodeNode(raw.matches[i])])]
  ELSE [ok |-> FALSE, message |-> raw.message]

\* snapshots of a few nodes
SmallTexts ==
  {YamlText(d, 0, 0) : d \in {"table", "nested", "regex", "line", "noNodes"}}

\* snapshots whose rows serialize to exactly 30000 characters, to a row less
\* and to a row more
LargeTexts == {YamlText("rows", 143, 56 + d) : d \in {0 - 1, 0, 1}}

\* what store_variable is called with
StoreInputs ==
  {"snap"} \X (SmallTexts \cup {EmptyText, BadText("unexpected end of the stream"),
                               BadText("bad indentation of a mapping entry")})

\* the same for the snapshots of many rows
LargeStoreInputs == {"large"} \X LargeTexts

RoleInputs ==
  {NoRole, RoleString(WRow), RoleString(<<>>), RoleArray(<<WRow, WHeading>>), RoleArray(<<>>)}

TextInputs ==
  {NoText, TextContains(WItem), TextEquals(WItemA), TextContains(WLogin),
   TextEquals(<<>>), TextContains(<<" ">>),
   TextRegex(PatternItemAB, <<"i">>), TextRegex(PatternItemAB, <<>>),
   TextRegex(WItemUpper, <<>>), TextRegex(WItemUpper, <<"g", "i">>),
   TextRegex(PatternEmpty, <<>>),
   TextRegex(PatternUnclosed, <<>>), TextRegex(WItemUpper, <<"x">>)}

AttributeInputs ==
  {NoAttributes, Attributes(<<>>, <<>>), Attributes(<<WKind>>, <<WA>>),
   Attributes(<<WKindUpper>>, <<WA>>), Attributes(<<WLevel>>, <<W2>>),
   Attributes(<<WLevel, WChecked>>, <<W2, TrueValue>>),
   Attributes(<<WLevel, WToString>>, <<W2, WB>>)}

\* the filters: one predicate at a time, and some conjunctions
Filters ==
  {[role |-> r, text |-> NoText, attributes |-> NoAttributes] : r \in RoleInputs}
  \cup {[role |-> NoRole, text |-> t, attributes |-> NoAttributes] : t \in TextInputs}
  \cup {[role |-> NoRole, text |-> NoText, attributes |-> a] : a \in AttributeInputs}
  \cup {[role |-> RoleString(WRow), text |-> TextContains(WItem), attributes |-> a] :
          a \in {NoAttributes, Attributes(<<WKind>>, <<WA>>)}}
  \cup {[role |-> RoleArray(<<WRow, WHeading>>), text |-> NoText,
         attributes |-> Attributes(<<WLevel>>, <<W2>>)]}
  \cup {[role |-> RoleString(WHeading), text |-> TextContains(WLogin),
         attributes |-> NoAttributes]}

\* the largest maxResults
MaxResultsBound == 2

FilterRows == [role |-> RoleString(WRow), text |-> NoText, attributes |-> NoAttributes]

FilterItems == [role |-> NoRole, text |-> TextContains(WItem), attributes |-> NoAttributes]

FilterAny == [role |-> NoRole, text |-> NoText, attributes |-> NoAttributes]

FilterKindA == [role |-> NoRole, text |-> NoText, attributes |-> Attributes(<<WKind>>, <<WA>>)]

FilterRegexItems ==
  [role |-> NoRole, text |-> TextRegex(PatternItemAB, <<"i">>), attributes |-> NoAttributes]

\* calls of snapshot_filter_json on a stored result, narrowing it in place or
\* returning the narrowed result
JsonCalls ==
  [op : {"snapshot_filter_json"}, variable : {"out"},
   filter : {FilterItems, FilterKindA, FilterRegexItems},
   includeSubtree : {FALSE}, mode : {"all"},
   maxResults : {NoMaxResults}, storeInVariable : {"", "out"}]

\* calls on a snapshot that return their result: every filter, flag and limit
SnapCalls ==
  [op : {"snapshot_get_and_filter"}, variable : {"snap"}, filter : Filters,
   includeSubtree : BOOLEAN, mode : {"first", "all"},
   maxResults : {NoMaxResults} \cup 1..MaxResultsBound, storeInVariable : {""}]

\* calls on a stored result and on a variable that is not set
OtherCalls ==
  [op : {"snapshot_get_and_filter"}, variable : {"out", "missing"},
   filter : {FilterRows, FilterAny},
   includeSubtree : {FALSE}, mode : {"all"},
   maxResults : {NoMaxResults}, storeInVariable : {""}]

\* calls that also store their result
StoreCalls ==
  [op : {"snapshot_get_and_filter"}, variable : {"snap", "out"},
   filter : {FilterRows}, includeSubtree : {FALSE}, mode : {"all"},
   maxResults : {NoMaxResults}, storeInVariable : {"out"}]

Calls == SnapCalls \cup OtherCalls \cup StoreCalls

\* calls on the snapshots of many rows
LargeCalls ==
  [op : {"snapshot_get_and_filter"}, variable : {"large"},
   filter : {FilterRows, FilterItems, FilterAny},
   includeSubtree : {FALSE}, mode : {"all"},
   maxResults : {NoMaxResults, MaxResultsBound}, storeInVariable : {""}]
  \cup
  [op : {"snapshot_get_and_filter"}, variable : {"large"}, filter : {FilterRows, FilterAny},
   includeSubtree : {TRUE}, mode : {"first", "all"},
   maxResults : {NoMaxResults}, storeInVariable : {""}]
  \cup
  [op : {"snapshot_get_and_filter"}, variable : {"large", "out"}, filter : {FilterRows},
   includeSubtree : {FALSE}, mode : {"all"},
   maxResults : {NoMaxResults}, storeInVariable : {"", "out"}]

----------------------------------------------------------------------------
(* snapshotGetAndFilterTool.execute                                        *)

MAX_JSON_CHARS == 30000

NoJson == [kind |-> "undefined"]
NoReason == [kind |-> "undefined"]

\* NotFound that tests for undefined only
NotFoundUndefinedOnly(raw) == raw.kind = "undefined"

\* if (!raw)
NotFound(raw) == raw.kind \in {"undefined", "empty"}

\* TooLarge that compares with >= instead of >
TooLargeOffByOne(json) == json.length >= MAX_JSON_CHARS

\* if (json.length > MAX_JSON_CHARS)
TooLarge(json) == json.length > MAX_JSON_CHARS

\* the filter argument of findMatches
FindArgs(call) ==
  [role |-> call.filter.role, text |-> call.filter.text,
   attributes |-> call.filter.attributes, includeSubtree |-> call.includeSubtree,
   mode |-> call.mode, maxResults |-> call.maxResults]

\* the values that execute returns
NotFoundResult(variable) ==
  [thrown |-> "", success |-> FALSE, count |-> 0, json |-> NoJson,
   reason |-> [kind |-> "Variable not found", variable |-> variable]]

\* ParseFailure that leaves out the message of the decoder
ParseFailureNoMessage(message) ==
  [thrown |-> "", success |-> FALSE, count |-> 0, json |-> NoJson,
   reason |-> [kind |-> "Failed to parse YAML", message |-> ""]]

ParseFailure(message) ==
  [thrown |-> "", success |-> FALSE, count |-> 0, json |-> NoJson,
   reason |-> [kind |-> "Failed to parse YAML", message |-> message]]

\* TooLargeResult with the count of the other failures
TooLargeResultNoCount(matches, json) ==
  [thrown |-> "", success |-> FALSE, count |-> 0, json |-> NoJson,
   reason |-> [kind |-> "Filtered result too large",
               actual |-> json.length, limit |-> MAX_JSON_CHARS]]

TooLargeResult(matches, json) ==
  [thrown |-> "", success |-> FALSE, count |-> Len(matches), json |-> NoJson,
   reason |-> [kind |-> "Filtered result too large",
               actual |-> json.length, limit |-> MAX_JSON_CHARS]]

SuccessResult(matches, json) ==
  [thrown |-> "", success |-> TRUE, count |-> Len(matches), json |-> json,
   reason |-> NoReason]

\* the call ends by throwing error; nothing is returned
Thrown(error) ==
  [thrown |-> error, success |-> FALSE, count |-> 0, json |-> NoJson, reason |-> NoReason]

\* how the call ends when it reads raw from the store
execute(raw, call) ==
  IF NotFound(raw) THEN NotFoundResult(call.variable)
  ELSE LET parsed == parse(raw)
       IN  IF ~parsed.ok THEN ParseFailure(parsed.message)
           ELSE LET rootNodes == buildNodes(parsed.value)
                    found     == findMatches(rootNodes, FindArgs(call))
                    matches   == found.results
                    json      == JsonStringify(matches)
                IN  IF found.error # "" THEN Thrown(found.error)
                    ELSE IF TooLarge(json) THEN TooLargeResult(matches, json)
                    ELSE SuccessResult(matches, json)

NoCall == [call |-> [op |-> "none"], raw |-> Undefined]

\* no call is running and the result of the last one was taken
Idle == lastCall = NoCall

\* the tool call: the result is returned, and stored when storeInVariable is given
SnapshotGetAndFilter(call) ==
  LET raw    == getVariable(call.variable)
      result == execute(raw, call)
  IN  /\ Idle
      /\ variables' = IF result.success /\ call.storeInVariable # ""
                      THEN setVariable(call.storeInVariable, result.json)
                      ELSE variables
      /\ lastCall' = [call |-> call, raw |-> raw]
      /\ lastResult' = result
      /\ UNCHANGED <<secrets, runner, mcp>>

----------------------------------------------------------------------------
(* snapshotFilterJsonTool.execute: the same engine on a stored result.     *)
(* The tool is in tools/snapshot.ts; it is modelled from the               *)
(* specification of the engine and from the calls of snapshot.test.ts.     *)

\* the source tree of a serialized match list: the entries it lists
JsonForest(raw) == raw.matches

\* how the call ends when it reads raw from the store
executeFilterJson(raw, call) ==
  IF NotFound(raw) THEN NotFoundResult(call.variable)
  ELSE IF raw.kind # "json"
  THEN [thrown |-> "", success |-> FALSE, count |-> 0, json |-> NoJson,
        reason |-> [kind |-> "Failed to parse JSON"]]
  ELSE LET found   == findMatches(JsonForest(raw), FindArgs(call))
           matches == found.results
           json    == JsonStringify(matches)
       IN  IF found.error # "" THEN Thrown(found.error)
           ELSE IF TooLarge(json) THEN TooLargeResult(matches, json)
           ELSE SuccessResult(matches, json)

\* the tool call: the result is returned, and stored when storeInVariable is given
SnapshotFilterJson(call) ==
  LET raw    == getVariable(call.variable)
      result == executeFilterJson(raw, call)
  IN  /\ Idle
      /\ variables' = IF result.success /\ call.storeInVariable # ""
                      THEN setVariable(call.storeInVariable, result.json)
                      ELSE variables
      /\ lastCall' = [call |-> call, raw |-> raw]
      /\ lastResult' = result
      /\ UNCHANGED <<secrets, runner, mcp>>

----------------------------------------------------------------------------
(* The variable tools                                                      *)

NoResult == [thrown |-> "", success |-> TRUE, reason |-> ""]

\* storeVariableTool.execute
StoreVariable(name, value, overwrite) ==
  /\ Idle
  /\ lastCall' = [call |-> [op |-> "store_variable"], raw |-> Undefined]
  /\ IF name \in DOMAIN variables /\ ~overwrite
     THEN /\ lastResult' = [thrown |-> "", success |-> FALSE,
                            reason |-> "Variable already exists"]
          /\ UNCHANGED variables
     ELSE /\ variables' = setVariable(name, value)
          /\ lastResult' = NoResult
  /\ UNCHANGED <<secrets, runner, mcp>>

\* resetVariables
ResetVariables ==
  /\ Idle
  /\ variables' = <<>>
  /\ lastCall' = [call |-> [op |-> "resetVariables"], raw |-> Undefined]
  /\ lastResult' = NoResult
  /\ UNCHANGED <<secrets, runner, mcp>>

\* the caller takes the result of the call; the next call can be made
Return ==
  /\ ~Idle
  /\ lastCall' = NoCall
  /\ lastResult' = NoResult
  /\ UNCHANGED <<variables, secrets, runner, mcp>>

----------------------------------------------------------------------------
(* The secret store and the substitution of secrets (tools/secret.ts)      *)

\* secrets.get(name) on the entries of the Map, undefined when there is none
HasSecret(name) == \E i \in 1..Len(secrets) : secrets[i].name = name

getSecret(name) ==
  secrets[CHOOSE i \in 1..Len(secrets) : secrets[i].name = name].value

\* secrets.set(name, value): a new name goes last, a name that is set keeps
\* its place
setSecret(name, value) ==
  IF HasSecret(name)
  THEN [i \in 1..Len(secrets) |->
          IF secrets[i].name = name THEN [name |-> name, value |-> value]
          ELSE secrets[i]]
  ELSE Append(secrets, [name |-> name, value |-> value])

\* the class [A-Za-z0-9_-] of SECRET_PLACEHOLDER
SecretNameChars == WordChars \cup {"-"}

\* 'secret.'
SecretDot == <<"s","e","c","r","e","t",".">>

\* '{{'
OpenBraces == <<"{","{">>

\* '}}'
CloseBraces == <<"}","}">>

\* `{{secret.${name}}}`
Placeholder(name) == OpenBraces \o SecretDot \o name \o CloseBraces

\* whether w is in s at index i
StartsWithAt(s, i, w) ==
  i + Len(w) - 1 <= Len(s) /\ SubSeq(s, i, i + Len(w) - 1) = w

NoMatch == [found |-> FALSE, name |-> <<>>, end |-> 0]

\* the match of /\{\{\s*secret\.([A-Za-z0-9_-]+)\s*\}\}/ that starts at index
\* i of s: the name and the index of the last character
PlaceholderAt(s, i) ==
  IF ~StartsWithAt(s, i, OpenBraces) THEN NoMatch
  ELSE LET j == SkipWhile(s, i + 2, Whitespace)
       IN  IF ~StartsWithAt(s, j, SecretDot) THEN NoMatch
           ELSE LET k == j + 7
                    e == SkipWhile(s, k, SecretNameChars)
                    m == SkipWhile(s, e, Whitespace)
                IN  IF e > k /\ StartsWithAt(s, m, CloseBraces)
                    THEN [found |-> TRUE, name |-> SubSeq(s, k, e - 1), end |-> m + 1]
                    ELSE NoMatch

\* a sequence with x added at the end unless it is in it (Set.add)
AddOnce(names, x) == IF x \in Range(names) THEN names ELSE Append(names, x)

\* v.replace(SECRET_PLACEHOLDER, ...) from index i on: the text that replaces
\* the rest of the string, the names used (added to used) and the names
\* missing, in the order of the matches
RECURSIVE ReplacePlaceholders(_, _, _)
ReplacePlaceholders(s, i, used) ==
  IF i > Len(s) THEN [out |-> <<>>, used |-> used, missing |-> <<>>]
  ELSE LET m == PlaceholderAt(s, i)
       IN  IF ~m.found
           THEN LET rest == ReplacePlaceholders(s, i + 1, used)
                IN  [rest EXCEPT !.out = <<s[i]>> \o @]
           ELSE IF HasSecret(m.name)
           THEN LET rest == ReplacePlaceholders(s, m.end + 1, AddOnce(used, m.name))
                IN  [rest EXCEPT !.out = getSecret(m.name) \o @]
           ELSE LET rest == ReplacePlaceholders(s, m.end + 1, used)
                IN  [rest EXCEPT !.out = SubSeq(s, i, m.end) \o @,
                                 !.missing = <<m.name>> \o @]

\* The state of a visit of replaceSecretsInArgsWithTracking: the value built,
\* the set used, and the names of the error thrown (<<>> when none).
RECURSIVE VisitArgs(_, _)
RECURSIVE VisitArgsItems(_, _, _, _)

\* v.map(visit), and the loop over Object.entries(v), from item i on; done
\* are the values built so far
VisitArgsItems(items, i, done, used) ==
  IF i > Len(items) THEN [value |-> done, used |-> used, missing |-> <<>>]
  ELSE LET r == VisitArgs(items[i], used)
       IN  IF r.missing # <<>> THEN r
           ELSE VisitArgsItems(items, i + 1, Append(done, r.value), r.used)

VisitArgs(v, used) ==
  IF v.t = "string"
  THEN LET r == ReplacePlaceholders(v.s, 1, used)
       IN  [value |-> YStr(r.out), used |-> r.used, missing |-> r.missing]
  ELSE IF v.t = "array"
  THEN LET r == VisitArgsItems(v.items, 1, <<>>, used)
       IN  IF r.missing # <<>> THEN r ELSE [r EXCEPT !.value = YList(@)]
  ELSE IF v.t = "object"
  THEN LET r == VisitArgsItems(v.vals, 1, <<>>, used)
       IN  IF r.missing # <<>> THEN r ELSE [r EXCEPT !.value = YMap(v.keys, @)]
  ELSE [value |-> v, used |-> used, missing |-> <<>>]

\* replaceSecretsInArgsWithTracking that does not throw for a missing secret
replaceSecretsInArgsNoThrow(value) ==
  LET r == VisitArgs(value, <<>>)
  IN  [thrown |-> "", value |-> r.value, usedSecretNames |-> r.used]

\* what replaceSecretsInArgsWithTracking returns, or the error it throws
replaceSecretsInArgsWithTracking(value) ==
  LET r == VisitArgs(value, <<>>)
  IN  IF r.missing # <<>>
      THEN [thrown |-> "Error", message |-> [kind |-> "Missing secret(s)", names |-> r.missing]]
      ELSE [thrown |-> "", value |-> r.value, usedSecretNames |-> r.used]

\* Replaceable that takes every secret that is set
ReplaceableNotFiltered(allowed) ==
  SelectSeq(secrets, LAMBDA e : Len(e.value) > 0)

\* the entries of secrets that are replaced: an allowed name, a value that
\* is not empty
Replaceable(allowed) ==
  SelectSeq(secrets, LAMBDA e : e.name \in allowed /\ Len(e.value) > 0)

\* Array.prototype.sort with (a, b) => b.value.length - a.value.length: the
\* longer value first, entries of equal length in the order they had
RECURSIVE SortLongestFirst(_)
SortLongestFirst(entries) ==
  IF entries = <<>> THEN <<>>
  ELSE LET longest == CHOOSE i \in 1..Len(entries) :
                        /\ \A j \in 1..Len(entries) :
                             Len(entries[j].value) <= Len(entries[i].value)
                        /\ \A j \in 1..(i - 1) :
                             Len(entries[j].value) < Len(entries[i].value)
       IN  <<entries[longest]>>
             \o SortLongestFirst([j \in 1..(Len(entries) - 1) |->
                                    IF j < longest THEN entries[j] ELSE entries[j + 1]])

\* the replacements of replaceSecretsInResultAllowed
Replacements(allowed) == SortLongestFirst(Replaceable(allowed))

\* out.replace(new RegExp(escapeRegExp(value), "g"), placeholder) from index i
\* on: every occurrence of value, found left to right
RECURSIVE ReplaceAll(_, _, _, _)
ReplaceAll(s, i, value, placeholder) ==
  IF i > Len(s) THEN <<>>
  ELSE IF StartsWithAt(s, i, value)
  THEN placeholder \o ReplaceAll(s, i + Len(value), value, placeholder)
  ELSE <<s[i]>> \o ReplaceAll(s, i + 1, value, placeholder)

\* the for loop over the replacements, from replacement i on
RECURSIVE ReplaceEach(_, _, _)
ReplaceEach(out, reps, i) ==
  IF i > Len(reps) THEN out
  ELSE ReplaceEach(ReplaceAll(out, 1, reps[i].value, Placeholder(reps[i].name)),
                   reps, i + 1)

\* the visit of replaceSecretsInResultAllowed
RECURSIVE VisitResult(_, _)
VisitResult(v, reps) ==
  IF v.t = "string" THEN YStr(ReplaceEach(v.s, reps, 1))
  ELSE IF v.t = "array"
  THEN YList([i \in 1..Len(v.items) |-> VisitResult(v.items[i], reps)])
  ELSE IF v.t = "object"
  THEN YMap(v.keys, [i \in 1..Len(v.vals) |-> VisitResult(v.vals[i], reps)])
  ELSE v

\* allowedSecretNames as the Set made of it
replaceSecretsInResultAllowed(value, allowed) == VisitResult(value, Replacements(allowed))

\* 'LONG'
NameLong == <<"L","O","N","G">>

\* 'SHORT'
NameShort == <<"S","H","O","R","T">>

\* 'TOKEN'
NameToken == <<"T","O","K","E","N">>

\* 'MISSING'
NameMissing == <<"M","I","S","S","I","N","G">>

\* 'abcdef'
ValueLong == <<"a","b","c","d","e","f">>

\* 'abc'
ValueShort == <<"a","b","c">>

\* 'e'
ValueE == <<"e">>

\* 'zzz'
ValueToken == <<"z","z","z">>

\* 'headers'
KeyHeaders == <<"h","e","a","d","e","r","s">>

\* 'Authorization'
KeyAuthorization == <<"A","u","t","h","o","r","i","z","a","t","i","o","n">>

\* 'list'
KeyList == <<"l","i","s","t">>

\* 'deep'
KeyDeep == <<"d","e","e","p">>

\* 's'
KeyS == <<"s">>

\* 'content'
KeyContent == <<"c","o","n","t","e","n","t">>

\* 'text'
KeyText == <<"t","e","x","t">>

\* '{{secret.MISSING}}'
KeyPlaceholder == <<"{","{","s","e","c","r","e","t",".","M","I","S","S","I","N","G","}","}">>

\* 'Bearer {{secret.TOKEN}}'
ArgBearer == <<"B","e","a","r","e","r"," ","{","{","s","e","c","r","e","t",".","T","O","K","E","N","}","}">>

\* 'a'
ArgA == <<"a">>

\* '{{secret.LONG}}'
ArgLong == <<"{","{","s","e","c","r","e","t",".","L","O","N","G","}","}">>

\* 'x {{ secret.TOKEN }} y'
ArgDeep == <<"x"," ","{","{"," ","s","e","c","r","e","t",".","T","O","K","E","N"," ","}","}"," ","y">>

\* 'a {{secret.SHORT}} b {{secret.MISSING}}'
ArgTwo == <<"a"," ","{","{","s","e","c","r","e","t",".","S","H","O","R","T","}","}"," ","b"," ","{","{","s","e","c","r","e","t",".","M","I","S","S","I","N","G","}","}">>

\* '{{secret.}} {{{secret.SHORT}}{{secret.SHORT}}'
ArgNoName == <<"{","{","s","e","c","r","e","t",".","}","}"," ","{","{","{","s","e","c","r","e","t",".","S","H","O","R","T","}","}","{","{","s","e","c","r","e","t",".","S","H","O","R","T","}","}">>

\* 'abcdef abc'
ResOverlap == <<"a","b","c","d","e","f"," ","a","b","c">>

\* 'key abcdef and token zzz'
ResKeyToken == <<"k","e","y"," ","a","b","c","d","e","f"," ","a","n","d"," ","t","o","k","e","n"," ","z","z","z">>

\* 'zzzabc'
ResMix == <<"z","z","z","a","b","c">>

\* 'e abcdef'
ResE == <<"e"," ","a","b","c","d","e","f">>

\* the arguments of a tool call
ArgsInputs ==
  { YMap(<<KeyHeaders, KeyList>>,
         << YMap(<<KeyAuthorization>>, <<YStr(ArgBearer)>>),
            YList(<<YStr(ArgA), YStr(ArgLong), YMap(<<KeyDeep>>, <<YStr(ArgDeep)>>)>>) >>),
    YMap(<<KeyS>>, <<YStr(ArgTwo)>>),
    YList(<<YStr(ArgNoName), YOther, YStr(ArgLong)>>),
    YMap(<<KeyPlaceholder>>, <<YStr(ArgA)>>),
    YStr(ArgDeep) }

\* the results of a tool call
ResultInputs ==
  { YMap(<<KeyS>>, <<YStr(ResOverlap)>>),
    YMap(<<KeyContent>>, <<YList(<<YMap(<<KeyText>>, <<YStr(ResKeyToken)>>)>>)>>),
    YList(<<YStr(ResMix), YOther, YStr(ResE)>>) }

\* the secrets that are set: name and value
SecretInputs ==
  { <<NameLong, ValueLong>>, <<NameShort, ValueShort>>, <<NameShort, ValueE>>,
    <<NameToken, ValueToken>>, <<NameToken, <<>> >> }

\* the lists of allowed names
AllowedInputs == SUBSET {NameLong, NameShort, NameToken}

\* setSecret
SetSecret(name, value) ==
  /\ Idle
  /\ secrets' = setSecret(name, value)
  /\ lastCall' = [call |-> [op |-> "setSecret"], raw |-> Undefined]
  /\ lastResult' = NoResult
  /\ UNCHANGED <<variables, runner, mcp>>

\* resetSecrets
ResetSecrets ==
  /\ Idle
  /\ secrets' = <<>>
  /\ lastCall' = [call |-> [op |-> "resetSecrets"], raw |-> Undefined]
  /\ lastResult' = NoResult
  /\ UNCHANGED <<variables, runner, mcp>>

\* a call of replaceSecretsInArgsWithTracking
ReplaceSecretsInArgsWithTracking(value) ==
  /\ Idle
  /\ lastCall' = [call |-> [op |-> "replaceSecretsInArgsWithTracking", value |-> value],
                  raw |-> Undefined]
  /\ lastResult' = replaceSecretsInArgsWithTracking(value)
  /\ UNCHANGED <<variables, secrets, runner, mcp>>

\* a call of replaceSecretsInResultAllowed
ReplaceSecretsInResultAllowed(value, allowed) ==
  /\ Idle
  /\ lastCall' = [call |-> [op |-> "replaceSecretsInResultAllowed", value |-> value,
                            allowed |-> allowed],
                  raw |-> Undefined]
  /\ lastResult' = [thrown |-> "", value |-> replaceSecretsInResultAllowed(value, allowed)]
  /\ UNCHANGED <<variables, secrets, runner, mcp>>

----------------------------------------------------------------------------
(* WorkflowRunner.run (runner.ts).  A run is followed from one await of    *)
(* generateText to the next: status "thinking" is the await, with attempts *)
(* already incremented for the attempt that is running.                    *)

\* const maxAttempts = autoMode ? 3 : Infinity
AutoMaxAttempts == 3

\* the longest workflow, and the most attempts a user asks of one step
MaxSteps == 3
MaxInteractiveAttempts == 4

\* no run was started; asked lists the step index of every generateText call
NoRun ==
  [status |-> "idle", autoMode |-> FALSE, steps |-> 0, i |-> 0, attempts |-> 0,
   asked |-> <<>>, attemptsPerStep |-> <<>>, error |-> ""]

\* the contents of secrets.json that loadSecrets reads, none when there is no file
SecretFiles == {<<>>, <<[name |-> NameToken, value |-> ValueToken]>>}

\* the first pass of "while (!stepFinished && attempts < maxAttempts)" of step
\* i: attempts is 0 and maxAttempts is at least 3, so the body runs up to the
\* await of generateText
EnterStep(r, i) ==
  [r EXCEPT !.status = "thinking", !.i = i, !.attempts = 1, !.asked = Append(@, i)]

\* ExitStep that does not record the attempts of the step
ExitStepNoPush(r) ==
  IF r.i + 1 < r.steps THEN EnterStep(r, r.i + 1)
  ELSE [r EXCEPT !.status = "returned"]

\* the loop of a step ended with stepFinished: attemptsPerStep.push(attempts),
\* then the next step, or the return after the last one
ExitStep(r) ==
  IF r.i + 1 < r.steps
  THEN EnterStep([r EXCEPT !.attemptsPerStep = Append(@, r.attempts)], r.i + 1)
  ELSE [r EXCEPT !.status = "returned", !.attemptsPerStep = Append(@, r.attempts)]

\* throw new WorkflowRunError(partial, message), after attemptsPerStep.push(attempts)
Fail(r, message) ==
  [r EXCEPT !.status = "thrown", !.attemptsPerStep = Append(@, r.attempts),
            !.error = message]

\* one more pass of the while loop: attempts++ and the await of generateText
Retry(r) ==
  [r EXCEPT !.attempts = @ + 1, !.asked = Append(@, r.i)]

\* the body of the while loop after generateText returned, in auto mode
AfterAttemptAuto(r, isDone, isError) ==
  IF isDone THEN ExitStep(r)
  ELSE IF isError THEN Fail(r, "reported ERROR")
  ELSE IF r.attempts >= AutoMaxAttempts THEN Fail(r, "failed after 3 attempts")
  ELSE Retry(r)

\* the same in interactive mode, with the decision of the user
AfterAttemptInteractive(r, decision) ==
  IF decision = "continue" THEN ExitStep(r)
  ELSE IF decision = "refine" THEN Retry(r)
  ELSE Fail(r, "Workflow aborted by user")

\* run(workflowName, autoMode) up to the first await of generateText, on a
\* workflow of the given number of steps
Run(steps, autoMode, loaded) ==
  /\ runner.status # "thinking"
  /\ variables' = <<>>
  /\ secrets' = loaded
  /\ runner' = IF steps = 0
               THEN [NoRun EXCEPT !.status = "returned", !.autoMode = autoMode]
               ELSE EnterStep([NoRun EXCEPT !.autoMode = autoMode, !.steps = steps], 0)
  /\ UNCHANGED <<lastCall, lastResult, mcp>>

\* run when selectWorkflow or loadWorkflow throws (no such workflow)
RunWorkflowNotFound(autoMode, loaded) ==
  /\ runner.status # "thinking"
  /\ variables' = <<>>
  /\ secrets' = loaded
  /\ runner' = [NoRun EXCEPT !.status = "thrown", !.autoMode = autoMode,
                             !.error = "workflow not found"]
  /\ UNCHANGED <<lastCall, lastResult, mcp>>

\* generateText returned a text whose first or last line starts with DONE
\* (isDone) or with ERROR (isError); in interactive mode the user decides
ModelAnswers(isDone, isError, decision) ==
  /\ runner.status = "thinking"
  /\ runner.autoMode \/ decision # "refine" \/ runner.attempts < MaxInteractiveAttempts
  /\ runner' = IF runner.autoMode
               THEN AfterAttemptAuto(runner, isDone, isError)
               ELSE AfterAttemptInteractive(runner, decision)
  /\ UNCHANGED <<variables, secrets, lastCall, lastResult, mcp>>

\* generateText rejects: the error leaves run through the finally block
GenerateTextThrows ==
  /\ runner.status = "thinking"
  /\ runner' = [runner EXCEPT !.status = "thrown", !.error = "generateText"]
  /\ UNCHANGED <<variables, secrets, lastCall, lastResult, mcp>>

Decisions == {"continue", "refine", "abort"}

NextRunner ==
  \/ \E steps \in 0..MaxSteps, autoMode \in BOOLEAN, loaded \in SecretFiles :
       Run(steps, autoMode, loaded)
  \/ \E autoMode \in BOOLEAN, loaded \in SecretFiles : RunWorkflowNotFound(autoMode, loaded)
  \/ \E isDone, isError \in BOOLEAN, decision \in Decisions :
       ModelAnswers(isDone, isError, decision)
  \/ GenerateTextThrows

----------------------------------------------------------------------------
(* PlaywrightMCP.callTool (tools/mcp/playwright-mcp.ts).  Every call is    *)
(* followed from one await to the next; the promise that call c creates is *)
(* named c, and 0 stands for undefined.                                    *)

\* the most invocations of callTool that are followed
MaxCalls == 3

\* not connected, no call made
NoMcp == [connected |-> FALSE, previousToolPromise |-> 0, resolved |-> {}, calls |-> <<>>]

ToolNames == {"browser_click", "browser_snapshot_and_save"}

\* the args of the calls: without a placeholder, and with one of a secret
McpArgsInputs == {YMap(<<KeyS>>, <<YStr(ArgA)>>), YMap(<<KeyS>>, <<YStr(ArgLong)>>)}

\* what the page gives to browser_snapshot: a snapshot, or no yaml block
SnapshotInputs == {YamlText("table", 0, 0), EmptyText}

\* the call at the given position of its body
At(m, c, pc) == [m EXCEPT !.calls[c].pc = pc]

\* the call ends by throwing; previousToolDeferred.resolve() is not reached
Throws(m, c, error) == [m EXCEPT !.calls[c].pc = "thrown", !.calls[c].error = error]

\* await originalPreviousToolPromise that does not wait for the promise
SettledNoWait(m, c) == TRUE

\* whether the promise that call c awaits is resolved
Settled(m, c) == m.calls[c].waitsFor \in m.resolved

\* previousToolDeferred.resolve() of call c
Resolve(m, c) == [m EXCEPT !.resolved = @ \cup {c}]

\* connect: this.client is set
Connect ==
  /\ ~mcp.connected
  /\ mcp' = [mcp EXCEPT !.connected = TRUE]
  /\ UNCHANGED <<variables, secrets, lastCall, lastResult, runner>>

\* callTool(name, args) up to its first await: of the previous promise when
\* there is one, of the timer when there is none
CallTool(name, args) ==
  /\ Len(mcp.calls) < MaxCalls
  /\ mcp' = [mcp EXCEPT
               !.previousToolPromise = Len(mcp.calls) + 1,
               !.calls = Append(@, [name |-> name, args |-> args,
                                    pc |-> IF mcp.previousToolPromise # 0
                                           THEN "awaitPrevious" ELSE "awaitTimer",
                                    waitsFor |-> mcp.previousToolPromise,
                                    error |-> ""])]
  /\ UNCHANGED <<variables, secrets, lastCall, lastResult, runner>>

\* the promise of the previous call is resolved: the call goes on to the timer
PreviousCompleted(c) ==
  /\ c \in DOMAIN mcp.calls
  /\ mcp.calls[c].pc = "awaitPrevious"
  /\ Settled(mcp, c)
  /\ mcp' = At(mcp, c, "awaitTimer")
  /\ UNCHANGED <<variables, secrets, lastCall, lastResult, runner>>

\* the timer fires and callMcpTool runs up to the await of client.callTool:
\* getClient and replaceSecretsInArgsWithTracking can throw before it
TimerFires(c) ==
  /\ c \in DOMAIN mcp.calls
  /\ mcp.calls[c].pc = "awaitTimer"
  /\ mcp' = IF ~mcp.connected THEN Throws(mcp, c, "MCP client not connected")
            ELSE IF replaceSecretsInArgsWithTracking(mcp.calls[c].args).thrown # ""
            THEN Throws(mcp, c, "Missing secret(s)")
            ELSE At(mcp, c, "action")
  /\ UNCHANGED <<variables, secrets, lastCall, lastResult, runner>>

\* client.callTool answers: the call resolves its promise and returns;
\* browser_snapshot_and_save stores the snapshot when the answer holds one
ActionReturns(c, snapshot) ==
  /\ c \in DOMAIN mcp.calls
  /\ mcp.calls[c].pc = "action"
  /\ mcp' = Resolve(At(mcp, c, "returned"), c)
  /\ variables' = IF mcp.calls[c].name = "browser_snapshot_and_save" /\ snapshot # EmptyText
                  THEN setVariable("snap", snapshot)
                  ELSE variables
  /\ UNCHANGED <<secrets, lastCall, lastResult, runner>>

\* client.callTool rejects: callMcpTool logs the error and throws it again
ActionThrows(c) ==
  /\ c \in DOMAIN mcp.calls
  /\ mcp.calls[c].pc = "action"
  /\ mcp' = Throws(mcp, c, "MCP error")
  /\ UNCHANGED <<variables, secrets, lastCall, lastResult, runner>>

NextMcp ==
  \/ Connect
  \/ \E name \in ToolNames, args \in McpArgsInputs : CallTool(name, args)
  \/ \E c \in 1..MaxCalls : PreviousCompleted(c)
  \/ \E c \in 1..MaxCalls : TimerFires(c)
  \/ \E c \in 1..MaxCalls, snapshot \in SnapshotInputs : ActionReturns(c, snapshot)
  \/ \E c \in 1..MaxCalls : ActionThrows(c)

----------------------------------------------------------------------------
(* parseDescriptor and buildNodes called on their own                      *)

\* the characters of the lines that are enumerated: a word character, a
\* blank, and the characters that the three expressions look for
ParseChars == {"a", " ", Quote, "[", "]", "="}

\* the longest enumerated line
MaxLineLen == 4

\* button"Save"
LineNoBlank == <<"b","u","t","t","o","n","\"","S","a","v","e","\"">>

\* link [name="x"] "Home" "Away"
LineQuoteInAttr ==
  <<"l","i","n","k"," ","[","n","a","m","e","=","\"","x","\"","]"," ",
    "\"","H","o","m","e","\""," ","\"","A","w","a","y","\"">>

\* - "Save" [a=b=c] [ checked ] [a = d]
LineManyAttrs ==
  <<"-"," ","\"","S","a","v","e","\""," ","[","a","=","b","=","c","]"," ",
    "["," ","c","h","e","c","k","e","d"," ","]"," ","[","a"," ","="," ","d","]">>

\* checkbox [__proto__] [checked]
LineProto ==
  <<"c","h","e","c","k","b","o","x"," ","[","_","_","p","r","o","t","o","_","_","]",
    " ","[","c","h","e","c","k","e","d","]">>

\* the lines that parseDescriptor is called with
LineInputs ==
  UNION {[1..n -> ParseChars] : n \in 0..MaxLineLen}
    \cup {LineNoBlank, LineQuoteInAttr, LineManyAttrs, LineProto, LineRowA, LineHeading}

\* a call of parseDescriptor
ParseDescriptor(descriptor) ==
  /\ Idle
  /\ lastCall' = [call |-> [op |-> "parseDescriptor", descriptor |-> descriptor],
                  raw |-> Undefined]
  /\ lastResult' = parseDescriptor(descriptor)
  /\ UNCHANGED <<variables, secrets, runner, mcp>>

NextParse ==
  \/ \E descriptor \in LineInputs : ParseDescriptor(descriptor)
  \/ Return

\* the most items of an enumerated list, and the most calls on one input
MaxItems == 2
MaxBuilds == 2

\* paragraph
LineParagraph == <<"p","a","r","a","g","r","a","p","h">>

\* what stands in a decoded snapshot: strings, scalars, lists and mappings
\* with no key, one key (a descriptor or a property path, with a list or
\* another value) and two keys
ItemShapes ==
  { YStr(LineRowA), YStr(LineTable), YOther,
    YMap(<<LineTable>>, <<YList(<<YStr(LineRowA), YMap(<<LineUrl>>, <<YStr(LineHash)>>)>>)>>),
    YMap(<<LineTable>>, <<YList(<<>>)>>),
    YMap(<<LineUrl>>, <<YStr(LineHash)>>),
    YMap(<<LineUrl>>, <<YList(<<YStr(LineRowB)>>)>>),
    YMap(<<>>, <<>>),
    YMap(<<LineTable, LineHeading>>, <<YList(<<YStr(LineRowA)>>), YList(<<>>)>>),
    YMap(<<LineParagraph>>, <<YStr(LineHash)>>),
    YMap(<<LineHeading>>, <<YOther>>),
    YMap(<<LineTable>>, <<YMap(<<LineRowA>>, <<YList(<<>>)>>)>>),
    YList(<<YStr(LineRowB), YList(<<YStr(LineHeading3)>>)>>) }

\* the decoded inputs of buildNodes: a shape, or a list of shapes
BuildInputs ==
  ItemShapes \cup {YList(items) : items \in UNION {[1..n -> ItemShapes] : n \in 0..MaxItems}}

\* InputAfter of a builder that takes the items off the list it walks
InputAfterShift(input) ==
  IF input.t = "array" THEN YList(<<>>) ELSE input

\* the input after a call of buildNodes: the function reads it (typeof,
\* Array.isArray, for...of, Object.keys, Object.entries) and assigns to no
\* part of it
InputAfter(input) == input

\* a call of buildNodes: on a new input, or once more on the input of the
\* call before; raw is the input as the call leaves it
BuildNodes(input) ==
  /\ \/ Idle
     \/ /\ lastCall.call.op = "buildNodes"
        /\ lastCall.call.input = input
        /\ Len(lastResult.forests) < MaxBuilds
  /\ LET now == IF Idle THEN input ELSE lastCall.raw
     IN  /\ lastCall' = [call |-> [op |-> "buildNodes", input |-> input],
                         raw |-> InputAfter(now)]
         /\ lastResult' = [forests |-> Append(IF Idle THEN <<>> ELSE lastResult.forests,
                                              buildNodes(now))]
  /\ UNCHANGED <<variables, secrets, runner, mcp>>

NextBuild ==
  \/ \E input \in BuildInputs : BuildNodes(input)
  \/ Return

----------------------------------------------------------------------------

Init ==
  /\ variables = <<>>
  /\ secrets = <<>>
  /\ lastCall = NoCall
  /\ lastResult = NoResult
  /\ runner = NoRun
  /\ mcp = NoMcp

Next ==
  \/ \E call \in Calls : SnapshotGetAndFilter(call)
  \/ \E call \in JsonCalls : SnapshotFilterJson(call)
  \/ \E in \in StoreInputs, overwrite \in BOOLEAN : StoreVariable(in[1], in[2], overwrite)
  \/ ResetVariables
  \/ Return

Spec == Init /\ [][Next]_vars

\* the same tools, called on the snapshots of many rows
NextLarge ==
  \/ \E call \in LargeCalls : SnapshotGetAndFilter(call)
  \/ \E in \in LargeStoreInputs, overwrite \in BOOLEAN : StoreVariable(in[1], in[2], overwrite)
  \/ ResetVariables
  \/ Return

SpecLarge == Init /\ [][NextLarge]_vars

\* the secret store and the two substitutions
NextSecrets ==
  \/ \E in \in SecretInputs : SetSecret(in[1], in[2])
  \/ ResetSecrets
  \/ \E value \in ArgsInputs : ReplaceSecretsInArgsWithTracking(value)
  \/ \E value \in ResultInputs, allowed \in AllowedInputs :
       ReplaceSecretsInResultAllowed(value, allowed)
  \/ Return

SpecSecrets == Init /\ [][NextSecrets]_vars

\* runs of workflows
SpecRunner == Init /\ [][NextRunner]_vars

\* parseDescriptor on every short line and on some longer ones
SpecParse == Init /\ [][NextParse]_vars

\* buildNodes on decoded values of every shape, once and again
SpecBuild == Init /\ [][NextBuild]_vars

\* calls of the browser tools that overlap
SpecMcp == Init /\ [][NextMcp]_vars

\* the same, where every step of a call that can be taken is taken in the
\* end: promise continuations and timers run, the client answers or fails
SpecMcpFair ==
  /\ SpecMcp
  /\ \A c \in 1..MaxCalls :
       /\ WF_vars(PreviousCompleted(c))
       /\ WF_vars(TimerFires(c))
       /\ WF_vars(ActionThrows(c) \/ \E snapshot \in SnapshotInputs : ActionReturns(c, snapshot))

----------------------------------------------------------------------------
(* What the claims are stated with: the call that just returned, the       *)
(* forest it read, and the pre-order traversal of that forest              *)

IsFilterCall == lastCall.call.op = "snapshot_get_and_filter"

\* the call found its variable and decoded it, so the forest was traversed
Traversed ==
  /\ IsFilterCall
  /\ lastCall.raw.kind \in {"yaml", "json"}

\* the call returned success
Succeeded == IsFilterCall /\ lastResult.thrown = "" /\ lastResult.success

\* the call returned the size failure
FailedTooLarge ==
  /\ IsFilterCall
  /\ lastResult.thrown = ""
  /\ ~lastResult.success
  /\ lastResult.reason.kind = "Filtered result too large"

Forest == buildNodes(parse(lastCall.raw).value)

Args == FindArgs(lastCall.call)

RECURSIVE PreOrder(_)
RECURSIVE PreOrderRange(_, _, _)

\* the nodes lo..hi of a list, each followed by its descendants
PreOrderRange(nodes, lo, hi) ==
  IF lo > hi THEN <<>>
  ELSE IF lo = hi THEN <<nodes[lo]>> \o PreOrder(nodes[lo].children)
  ELSE LET mid == (lo + hi) \div 2
       IN  PreOrderRange(nodes, lo, mid) \o PreOrderRange(nodes, mid + 1, hi)

\* node before its children, siblings left to right
PreOrder(nodes) == PreOrderRange(nodes, 1, Len(nodes))

\* the node satisfies the predicate of the call
Satisfies(node) == NodeMatches(node, Args) = "true"

\* the nodes of the forest that satisfy the predicate, in pre-order
Matching == SelectSeq(PreOrder(Forest), Satisfies)

\* the entry a node is returned as
Entry(node) ==
  IF lastCall.call.includeSubtree THEN node ELSE [node EXCEPT !.children = <<>>]

Entries(nodes) == [i \in 1..Len(nodes) |-> Entry(nodes[i])]

\* the first k elements of a sequence, all of them when there are fewer
Take(seq, k) == SubSeq(seq, 1, IF Len(seq) < k THEN Len(seq) ELSE k)

IsPrefix(a, b) == Len(a) <= Len(b) /\ a = SubSeq(b, 1, Len(a))

\* the matches that the call is to return under its mode and maxResults
Expected ==
  IF lastCall.call.mode = "first" THEN Take(Entries(Matching), 1)
  ELSE IF lastCall.call.maxResults > 0
  THEN Take(Entries(Matching), lastCall.call.maxResults)
  ELSE Entries(Matching)

\* the same call in mode "all" without maxResults, as findMatches runs it
UncappedAll ==
  findMatches(Forest, [Args EXCEPT !.mode = "all", !.maxResults = NoMaxResults]).results

----------------------------------------------------------------------------
(* Claims                                                                  *)

\* C1: a call never returns success with a payload longer than 30,000
\* characters: when the serialized matches are longer than 30,000 characters
\* the call returns success:false with the reason "Filtered result too large",
\* and when they have 30,000 characters or fewer the call returns success.
C1_SizeLimit ==
  IsFilterCall /\ lastResult.thrown = "" =>
    /\ lastResult.success => lastResult.json.length <= 30000
    /\ Traversed =>
         LET n == JsonArrayLen(Expected, 0)
         IN  /\ n > 30000 => FailedTooLarge
             /\ n <= 30000 => lastResult.success /\ lastResult.json.length = n

\* a call failed because its result has more than 30,000 characters
C1_Witness == FailedTooLarge

\* C2: when the call fails because the result is too large, count is the
\* number of matches that would have been returned, and the reason states the
\* actual length and the limit of 30,000.
C2_TooLargeCount ==
  FailedTooLarge =>
    /\ lastResult.count = Len(Expected)
    /\ lastResult.reason.actual = JsonArrayLen(Expected, 0)
    /\ lastResult.reason.actual > 30000
    /\ lastResult.reason.limit = 30000

\* a call on two hundred rows failed for its size and reports the 200 rows
C2_Witness == FailedTooLarge /\ lastResult.count = 200

\* C3: matches are never dropped to fit the size budget: a call that succeeds
\* returns count equal to the number of nodes the traversal collects under
\* the mode and maxResults, and the payload lists exactly those nodes.
C3_NothingDropped ==
  Succeeded =>
    /\ lastResult.count = Len(Expected)
    /\ lastResult.json.matches = Expected
    /\ lastResult.json.length = JsonArrayLen(Expected, 0)

\* a call succeeded with a payload of exactly 30,000 characters
C3_Witness ==
  Succeeded /\ lastResult.json.length = 30000 /\ lastResult.count = Len(Matching)

\* C4: in mode "all" the returned matches are the nodes that satisfy the
\* predicate in pre-order (node before its children, siblings left to
\* right): all of them without maxResults, the first ones otherwise.
C4_DocumentOrder ==
  Traversed /\ Succeeded /\ lastCall.call.mode = "all" =>
    /\ IsPrefix(lastResult.json.matches, Entries(Matching))
    /\ lastCall.call.maxResults = NoMaxResults =>
         lastResult.json.matches = Entries(Matching)

\* a call in mode "all" returned several nodes, one of them below a root,
\* and left out other nodes of the forest
C4_Witness ==
  /\ Traversed /\ Succeeded /\ lastCall.call.mode = "all"
  /\ lastCall.call.maxResults = NoMaxResults
  /\ Len(lastResult.json.matches) >= 3
  /\ Len(lastResult.json.matches) < Len(PreOrder(Forest))
  /\ \E i \in 1..Len(Forest) : Forest[i].children # <<>> /\ Satisfies(Forest[i].children[1])

\* C5: mode "first" returns nothing when mode "all" (without maxResults)
\* returns nothing, and otherwise the one-element list of the first element
\* of the mode "all" result.
C5_FirstIsHeadOfAll ==
  Traversed /\ Succeeded /\ lastCall.call.mode = "first" =>
    /\ lastResult.json.matches = Take(UncappedAll, 1)
    /\ lastResult.count <= 1

\* a call in mode "first" returned one node, which is not a root, of several
\* that match
C5_Witness ==
  /\ Traversed /\ Succeeded /\ lastCall.call.mode = "first"
  /\ lastResult.count = 1
  /\ Len(UncappedAll) >= 2
  /\ \A i \in 1..Len(Forest) : ~Satisfies(Forest[i])

\* C6: an entry has the role, text, attributes and rawDescriptor of the node
\* it was collected from; its children are empty with includeSubtree=false
\* and equal to the whole subtree of the node with includeSubtree=true.
C6_SubtreeToggle ==
  Traversed /\ Succeeded =>
    LET m == lastResult.json.matches
    IN  /\ Len(m) <= Len(Matching)
        /\ \A i \in 1..Len(m) :
             /\ m[i].role = Matching[i].role
             /\ m[i].text = Matching[i].text
             /\ m[i].attributes = Matching[i].attributes
             /\ m[i].rawDescriptor = Matching[i].rawDescriptor
             /\ m[i].children =
                  IF lastCall.call.includeSubtree THEN Matching[i].children ELSE <<>>

\* a call with includeSubtree=true returned an entry with grandchildren
C6_Witness ==
  /\ Traversed /\ Succeeded /\ lastCall.call.includeSubtree
  /\ \E i \in 1..Len(lastResult.json.matches) :
       \E j \in 1..Len(lastResult.json.matches[i].children) :
         lastResult.json.matches[i].children[j].children # <<>>

RECURSIVE PathsOf(_, _)
\* the paths (child indexes from a root down) of the nodes of a forest
PathsOf(nodes, prefix) ==
  UNION {{Append(prefix, i)} \cup PathsOf(nodes[i].children, Append(prefix, i)) :
           i \in 1..Len(nodes)}

RECURSIVE NodeAt(_, _)
NodeAt(nodes, path) ==
  IF Len(path) = 1 THEN nodes[path[1]]
  ELSE NodeAt(nodes[path[1]].children, Tail(path))

\* p is a proper ancestor of q
Above(p, q) == Len(p) < Len(q) /\ SubSeq(q, 1, Len(p)) = p

\* the pairs of a node that satisfies the predicate and a descendant that
\* satisfies it too
NestedMatches ==
  {pq \in PathsOf(Forest, <<>>) \X PathsOf(Forest, <<>>) :
     /\ Above(pq[1], pq[2])
     /\ Satisfies(NodeAt(Forest, pq[1]))
     /\ Satisfies(NodeAt(Forest, pq[2]))}

\* C7: in mode "all" the traversal descends into the children of a node it
\* collected: a descendant that satisfies the predicate is an entry of its
\* own, after the entry of its ancestor, also with includeSubtree=true.
C7_DescendsIntoMatches ==
  /\ Traversed /\ Succeeded /\ lastCall.call.mode = "all"
  /\ lastCall.call.maxResults = NoMaxResults
  => \A pq \in NestedMatches :
       \E i, j \in 1..Len(lastResult.json.matches) :
         /\ i < j
         /\ lastResult.json.matches[i] = Entry(NodeAt(Forest, pq[1]))
         /\ lastResult.json.matches[j] = Entry(NodeAt(Forest, pq[2]))

\* a call with includeSubtree=true in mode "all" on a forest where a node and
\* one of its descendants both satisfy the predicate
C7_Witness ==
  /\ Traversed /\ Succeeded /\ lastCall.call.mode = "all"
  /\ lastCall.call.maxResults = NoMaxResults
  /\ lastCall.call.includeSubtree
  /\ NestedMatches # {}

\* C8: with maxResults = k in mode "all" the result is the first k elements
\* of the result without maxResults (all of them when there are fewer), and
\* never has more than k entries.
C8_MaxResults ==
  /\ Traversed /\ Succeeded /\ lastCall.call.mode = "all"
  /\ lastCall.call.maxResults > 0
  => /\ lastResult.json.matches = Take(UncappedAll, lastCall.call.maxResults)
     /\ lastResult.count <= lastCall.call.maxResults

\* a call with maxResults returned fewer nodes than match
C8_Witness ==
  /\ Traversed /\ Succeeded /\ lastCall.call.mode = "all"
  /\ lastCall.call.maxResults > 0
  /\ lastResult.count = lastCall.call.maxResults
  /\ Len(UncappedAll) > lastCall.call.maxResults

\* the predicates as the claims state them
RolePasses(node, role) ==
  \/ role.kind = "absent"
  \/ role.kind = "string" /\ node.role = role.value
  \/ role.kind = "array" /\ \E i \in 1..Len(role.values) : node.role = role.values[i]

TextPasses(node, text) ==
  \/ text.kind = "absent"
  \/ text.kind = "equals" /\ toLowerCase(trim(node.text)) = toLowerCase(trim(text.arg))
  \/ text.kind = "contains"
       /\ includes(toLowerCase(trim(node.text)), toLowerCase(trim(text.arg)))
  \/ text.kind = "regex"
       /\ RegExpTest(RegExp(text.arg, text.flags), toLowerCase(trim(node.text)))

AttributesPass(node, attributes) ==
  \/ attributes.kind = "absent"
  \/ attributes.kind = "record"
       /\ \A i \in 1..Len(attributes.keys) :
            /\ attributes.keys[i] \in DOMAIN node.attributes
            /\ toLowerCase(trim(node.attributes[attributes.keys[i]]))
                 = toLowerCase(trim(attributes.vals[i]))

Passes(node) ==
  /\ RolePasses(node, lastCall.call.filter.role)
  /\ TextPasses(node, lastCall.call.filter.text)
  /\ AttributesPass(node, lastCall.call.filter.attributes)

\* C9: a node is collected iff it passes the role, text and attribute
\* predicates that are specified; an absent predicate passes every node, and
\* a specified role passes only the nodes whose role is the given role or a
\* member of the given list.
C9_Conjunction ==
  /\ Traversed /\ Succeeded /\ lastCall.call.mode = "all"
  /\ lastCall.call.maxResults = NoMaxResults
  => lastResult.json.matches = Entries(SelectSeq(PreOrder(Forest), Passes))

\* the filter has the attribute predicate only
AttributesOnly ==
  /\ lastCall.call.filter.role.kind = "absent"
  /\ lastCall.call.filter.text.kind = "absent"
  /\ lastCall.call.filter.attributes.kind = "record"

AttributesPassNode(node) == AttributesPass(node, lastCall.call.filter.attributes)

\* C10: the attribute predicate is a subset match: a node passes iff every
\* required key is a key of the node (case-sensitive) and the node's value
\* equals the required value after lowercasing and trimming both; other
\* attributes of the node are ignored.
C10_AttributeSubset ==
  Traversed /\ AttributesOnly =>
    /\ Succeeded
    /\ lastCall.call.mode = "all" /\ lastCall.call.maxResults = NoMaxResults =>
         lastResult.json.matches = Entries(SelectSeq(PreOrder(Forest), AttributesPassNode))

\* the descriptor has a quoted segment
HasQuotedSegment(d) ==
  \E i, j \in 1..Len(d) : i < j /\ d[i] = Quote /\ d[j] = Quote

\* C11: a node built from a descriptor line without a quoted segment has
\* absent text and never matches a text predicate, whatever the argument of
\* equals, contains or regex is (the empty string and a pattern that matches
\* the empty string included): a call with a text predicate returns no such
\* node.
C11_AbsentTextNeverMatches ==
  Traversed /\ Succeeded /\ lastCall.call.filter.text.kind # "absent" =>
    \A i \in 1..Len(lastResult.json.matches) :
      HasQuotedSegment(lastResult.json.matches[i].rawDescriptor)

\* the node satisfies the role and attribute predicates of the call
SatisfiesOtherThanText(node) == NodeMatches(node, [Args EXCEPT !.text = NoText]) = "true"

\* the node satisfies them and passes the text predicate as the claims state it
PassesText(node) ==
  SatisfiesOtherThanText(node) /\ TextPasses(node, lastCall.call.filter.text)

\* the call in mode "all" without maxResults returned its matches
ReturnedAll ==
  /\ Traversed /\ Succeeded /\ lastCall.call.mode = "all"
  /\ lastCall.call.maxResults = NoMaxResults

\* C12: equals passes iff lowercase(trim(node text)) equals
\* lowercase(trim(argument)), contains passes iff lowercase(trim(node text))
\* has lowercase(trim(argument)) as a substring; the heading "Login Page" is
\* returned for role heading with text contains "login".
C12_EqualsContains ==
  /\ ReturnedAll /\ lastCall.call.filter.text.kind \in {"equals", "contains"}
       => lastResult.json.matches = Entries(SelectSeq(PreOrder(Forest), PassesText))
  /\ /\ ReturnedAll
     /\ lastCall.call.filter.role = RoleString(WHeading)
     /\ lastCall.call.filter.text = TextContains(WLogin)
     /\ \E i \in 1..Len(PreOrder(Forest)) : PreOrder(Forest)[i].rawDescriptor = LineHeading
     => \E i \in 1..Len(lastResult.json.matches) :
          lastResult.json.matches[i].rawDescriptor = LineHeading

\* a call with the argument ' ITEM ' of contains returned the rows "Item A"
\* and "Item B" and left out the row "Another A"
C12_Witness ==
  /\ ReturnedAll /\ lastCall.call.filter.text = TextContains(WItem)
  /\ lastCall.raw.doc = "table"
  /\ lastResult.count = 2

\* C13: regex passes iff the pattern compiled with the given flags matches
\* lowercase(trim(node text)); a pattern with an uppercase letter and without
\* the flag i matches no node, and "^item [ab]$" with the flag i over the rows
\* "Item A", "item b", "Misc" returns the rows "Item A" and "item b".
C13_Regex ==
  ReturnedAll /\ lastCall.call.filter.text.kind = "regex" =>
    /\ lastResult.json.matches = Entries(SelectSeq(PreOrder(Forest), PassesText))
    /\ /\ \E i \in 1..Len(lastCall.call.filter.text.arg) :
              lastCall.call.filter.text.arg[i] \in Range(UpperLetters)
       /\ ~HasFlag(lastCall.call.filter.text.flags, "i")
       => lastResult.count = 0
    /\ /\ lastCall.call.filter.text = TextRegex(PatternItemAB, <<"i">>)
       /\ lastCall.raw.doc = "regex"
       => /\ lastResult.count = 2
          /\ lastResult.json.matches[1].rawDescriptor = LineRowItemA
          /\ lastResult.json.matches[2].rawDescriptor = LineRowItemB

\* the call with "^item [ab]$" and the flag i on the three rows returned
C13_Witness ==
  /\ ReturnedAll /\ lastCall.call.filter.text = TextRegex(PatternItemAB, <<"i">>)
  /\ lastCall.raw.doc = "regex"
  /\ lastResult.count = 2

\* C14: a filter call never throws: every failure is returned as a result
\* with success false, a count and a reason, also when the pattern or the
\* flags of the text filter are not a regular expression.
C14_NeverThrows ==
  IsFilterCall =>
    /\ lastResult.thrown = ""
    /\ ~lastResult.success => lastResult.reason # NoReason

\* C15: when the named variable is not in the store, or holds the empty
\* string, the call returns success false, count 0 and the reason
\* "Variable '<name>' not found"; nothing is parsed, filtered or stored.
C15_VariableNotFound ==
  [][ /\ lastCall'.call.op = "snapshot_get_and_filter"
      /\ \/ lastCall'.call.variable \notin DOMAIN variables
         \/ variables[lastCall'.call.variable] = EmptyText
      => /\ lastResult' =
              [thrown |-> "", success |-> FALSE, count |-> 0, json |-> NoJson,
               reason |-> [kind |-> "Variable not found",
                           variable |-> lastCall'.call.variable]]
         /\ variables' = variables ]_vars

\* a call that was to store its result read a variable holding the empty string
C15_Witness ==
  /\ IsFilterCall /\ lastCall.raw = EmptyText
  /\ lastCall.call.storeInVariable # ""
  /\ ~lastResult.success /\ lastResult.count = 0
  /\ lastResult.reason.kind = "Variable not found"

\* C16: when the content of the variable fails to decode, the call returns
\* success false, count 0 and the reason "Failed to parse YAML: " followed by
\* the message of the decoder; no match is reported and nothing is stored.
C16_ParseFailure ==
  [][ /\ lastCall'.call.op = "snapshot_get_and_filter"
      /\ lastCall'.call.variable \in DOMAIN variables
      /\ variables[lastCall'.call.variable].kind = "invalid"
      => /\ lastResult' =
              [thrown |-> "", success |-> FALSE, count |-> 0, json |-> NoJson,
               reason |-> [kind |-> "Failed to parse YAML",
                           message |-> variables[lastCall'.call.variable].message]]
         /\ variables' = variables ]_vars

\* a call that was to store its result read a text that does not decode
C16_Witness ==
  /\ IsFilterCall /\ lastCall.raw.kind = "invalid"
  /\ lastCall.call.storeInVariable # ""
  /\ ~lastResult.success /\ lastResult.count = 0
  /\ lastResult.reason.kind = "Failed to parse YAML"
  /\ lastResult.reason.message = lastCall.raw.message

IsFilterJsonCall == lastCall.call.op = "snapshot_filter_json"

\* the descriptors of a list of nodes
Descriptors(nodes) == [i \in 1..Len(nodes) |-> nodes[i].rawDescriptor]

----------------------------------------------------------------------------
(* The claims about the substitution of secrets                            *)

IsArgsCall == lastCall.call.op = "replaceSecretsInArgsWithTracking"

IsResultCall == lastCall.call.op = "replaceSecretsInResultAllowed"

RECURSIVE Leaves(_)
RECURSIVE LeavesOf(_, _)
\* the strings of the values from index i on, in the order of the structure
LeavesOf(items, i) ==
  IF i > Len(items) THEN <<>> ELSE Leaves(items[i]) \o LeavesOf(items, i + 1)

\* the strings of a value
Leaves(v) ==
  IF v.t = "string" THEN <<v.s>>
  ELSE IF v.t = "array" THEN LeavesOf(v.items, 1)
  ELSE IF v.t = "object" THEN LeavesOf(v.vals, 1)
  ELSE <<>>

\* the value with every string emptied: its structure, keys and other leaves
RECURSIVE Shape(_)
Shape(v) ==
  IF v.t = "string" THEN YStr(<<>>)
  ELSE IF v.t = "array" THEN YList([i \in 1..Len(v.items) |-> Shape(v.items[i])])
  ELSE IF v.t = "object"
  THEN YMap(v.keys, [i \in 1..Len(v.vals) |-> Shape(v.vals[i])])
  ELSE v

\* the number of places where w occurs in s
Occurrences(w, s) == Cardinality({i \in 1..Len(s) : StartsWithAt(s, i, w)})

\* the placeholders of a string: <<i, p, q, j>> where "{{" is at i, "secret."
\* at p, the name ends at q and "}}" ends at j, with nothing but whitespace
\* between "{{" and "secret." and between the name and "}}"
PlaceholderSpans(s) ==
  LET opens  == {i \in 1..Len(s) : StartsWithAt(s, i, OpenBraces)}
      dots   == {i \in 1..Len(s) : StartsWithAt(s, i, SecretDot)}
      closes == {i \in 1..Len(s) : StartsWithAt(s, i, CloseBraces)}
  IN  {x \in opens \X dots \X (1..Len(s)) \X {c + 1 : c \in closes} :
         /\ x[1] + 2 <= x[2] /\ x[2] + 7 <= x[3] /\ x[3] + 2 <= x[4]
         /\ \A k \in (x[1] + 2)..(x[2] - 1) : s[k] \in Whitespace
         /\ \A k \in (x[2] + 7)..x[3] : s[k] \in SecretNameChars
         /\ \A k \in (x[3] + 1)..(x[4] - 2) : s[k] \in Whitespace}

SpanName(s, x) == SubSeq(s, x[2] + 7, x[3])

\* the names of the placeholders of a value
PlaceholderNames(v) ==
  UNION {{SpanName(Leaves(v)[k], x) : x \in PlaceholderSpans(Leaves(v)[k])} :
           k \in 1..Len(Leaves(v))}

\* the string from index i on with every placeholder replaced by the value
\* of its secret
RECURSIVE Substituted(_, _)
Substituted(s, i) ==
  IF i > Len(s) THEN <<>>
  ELSE LET here == {x \in PlaceholderSpans(s) : x[1] = i}
       IN  IF here = {} THEN <<s[i]>> \o Substituted(s, i + 1)
           ELSE LET x == CHOOSE y \in here : TRUE
                IN  getSecret(SpanName(s, x)) \o Substituted(s, x[4] + 1)

\* C18: replaceSecretsInArgsWithTracking on a nesting of objects, arrays and
\* strings throws when a placeholder names a secret that is not set, and
\* returns no value then; otherwise it returns the same structure with every
\* placeholder replaced by the value of its secret, and usedSecretNames is
\* the set of the names that were substituted.
C18_ArgsSubstitution ==
  IsArgsCall =>
    LET v     == lastCall.call.value
        names == PlaceholderNames(v)
    IN  IF \E n \in names : ~HasSecret(n)
        THEN /\ lastResult.thrown = "Error"
             /\ "value" \notin DOMAIN lastResult
        ELSE /\ lastResult.thrown = ""
             /\ Shape(lastResult.value) = Shape(v)
             /\ Leaves(lastResult.value) =
                  [k \in 1..Len(Leaves(v)) |-> Substituted(Leaves(v)[k], 1)]
             /\ Range(lastResult.usedSecretNames) = names
             /\ Cardinality(names) = Len(lastResult.usedSecretNames)

\* the call threw for the string that names a secret that is set and one
\* that is not
C18_Witness ==
  /\ IsArgsCall /\ lastResult.thrown = "Error"
  /\ lastCall.call.value = YMap(<<KeyS>>, <<YStr(ArgTwo)>>)
  /\ HasSecret(NameShort) /\ ~HasSecret(NameMissing)

\* the secrets that are set, not allowed in the call, and not empty
NotAllowed ==
  {i \in 1..Len(secrets) :
     secrets[i].name \notin lastCall.call.allowed /\ secrets[i].value # <<>>}

\* the values of the allowed secrets that are not empty
AllowedValues ==
  {secrets[i].value : i \in {j \in 1..Len(secrets) :
     secrets[j].name \in lastCall.call.allowed /\ secrets[j].value # <<>>}}

\* every place of the input where the value of secret i is, is one in the result
ValueKept(i) ==
  \A k \in 1..Len(Leaves(lastCall.call.value)) :
    Occurrences(secrets[i].value, Leaves(lastResult.value)[k])
      >= Occurrences(secrets[i].value, Leaves(lastCall.call.value)[k])

Masked(s, long, short) ==
  ReplaceAll(ReplaceAll(s, 1, long.value, <<"<long>">>), 1, short.value, <<"<short>">>)

\* the elements of a masked string as characters
RECURSIVE Unmasked(_, _, _)
Unmasked(m, long, short) ==
  IF m = <<>> THEN <<>>
  ELSE (IF Head(m) = "<long>" THEN Placeholder(long.name)
        ELSE IF Head(m) = "<short>" THEN Placeholder(short.name)
        ELSE <<Head(m)>>) \o Unmasked(Tail(m), long, short)

\* C20: when the value of an allowed secret is inside the value of another
\* allowed secret, the longer value is replaced first: a place of the longer
\* value is masked as a whole by the placeholder of the longer secret and
\* the remaining places of the shorter value by the placeholder of the
\* shorter secret.
C20_LongerFirst ==
  /\ IsResultCall
  /\ lastCall.call.allowed = {NameLong, NameShort}
  /\ HasSecret(NameLong) /\ HasSecret(NameShort)
  /\ Occurrences(getSecret(NameShort), getSecret(NameLong)) > 0
  => \A k \in 1..Len(Leaves(lastCall.call.value)) :
       Leaves(lastResult.value)[k] =
         LET long  == [name |-> NameLong, value |-> getSecret(NameLong)]
             short == [name |-> NameShort, value |-> getSecret(NameShort)]
         IN  Unmasked(Masked(Leaves(lastCall.call.value)[k], long, short), long, short)


----------------------------------------------------------------------------
(* Runs of workflows                                                       *)

\* how many times generateText was called for step k (the first step is 1)
AttemptsOf(k) == Cardinality({j \in DOMAIN runner.asked : runner.asked[j] = k - 1})

\* C21: a run in auto mode that returned normally reports attemptsPerStep
\* with one entry per step of the workflow, entry k being the number of
\* attempts made of step k, which is at least 1 and at most 3
C21_AttemptsPerStep ==
  (runner.status = "returned" /\ runner.autoMode) =>
    /\ Len(runner.attemptsPerStep) = runner.steps
    /\ \A k \in 1..runner.steps :
         /\ runner.attemptsPerStep[k] = AttemptsOf(k)
         /\ runner.attemptsPerStep[k] >= 1
         /\ runner.attemptsPerStep[k] <= AutoMaxAttempts

\* a run in auto mode returned after a step that took one attempt and a step
\* that took three
C21_Witness ==
  /\ runner.status = "returned"
  /\ runner.autoMode
  /\ runner.steps >= 2
  /\ \E k \in 1..runner.steps : runner.attemptsPerStep[k] = 1
  /\ \E k \in 1..runner.steps : runner.attemptsPerStep[k] = AutoMaxAttempts

----------------------------------------------------------------------------
(* Calls of callTool that overlap                                          *)

\* the call started its action: callMcpTool or snapshotAndSaveTool.execute ran
Started(c) == mcp.calls[c].pc \in {"action", "returned", "thrown"}

\* the action of the call is in flight
InFlight(c) == mcp.calls[c].pc = "action"

\* the call ended, by returning or by throwing
Ended(c) == mcp.calls[c].pc \in {"returned", "thrown"}

\* C29: at most one action is in flight at any time, and a call has started
\* its action only when every call invoked before it has ended
C29_OneInFlightInOrder ==
  /\ Cardinality({c \in DOMAIN mcp.calls : InFlight(c)}) <= 1
  /\ \A c \in DOMAIN mcp.calls : Started(c) => \A b \in 1..(c - 1) : Ended(b)

\* three calls were invoked; the second has its action in flight while the
\* third waits for it
C29_Witness ==
  /\ Len(mcp.calls) >= 3
  /\ Ended(1)
  /\ InFlight(2)
  /\ mcp.calls[3].pc = "awaitPrevious"

\* C30: a call that was invoked, and before which every call has ended,
\* starts its action in the end, also when one of those calls ended by throwing
C30_EveryCallStarts ==
  \A c \in 1..MaxCalls :
    (c \in DOMAIN mcp.calls /\ \A b \in 1..(c - 1) : Ended(b))
      ~> (c \in DOMAIN mcp.calls /\ Started(c))

----------------------------------------------------------------------------
(* parseDescriptor                                                         *)

\* parseDescriptor was called and its descriptor is returned
IsParseCall == lastCall.call.op = "parseDescriptor"

\* the line it was called with
Line == lastCall.call.descriptor

\* the length of the leading run of word characters of the line
LeadingWord(d) ==
  CHOOSE n \in 0..Len(d) :
    /\ \A i \in 1..n : d[i] \in WordChars
    /\ n = Len(d) \/ d[n + 1] \notin WordChars

\* the positions of the double quotes of the line
Quotes(d) == {i \in 1..Len(d) : d[i] = Quote}

\* the double quote that follows position i
NextQuote(d, i) == CHOOSE k \in Quotes(d) : k > i /\ \A x \in Quotes(d) : x > i => k <= x

\* the closing brackets that end a bracketed segment: since the closing
\* bracket before it (or the start of the line) there is an opening bracket,
\* and the first of them is followed by a character of content
SegmentOpen(d, c) ==
  LET before == {x \in 1..(c - 1) : d[x] = "]"}
      from   == IF before = {} THEN 1
                ELSE 1 + CHOOSE x \in before : \A y \in before : y <= x
      opens  == {q \in from..(c - 1) : d[q] = "["}
  IN  IF opens = {} THEN 0 ELSE CHOOSE q \in opens : \A y \in opens : q <= y

SegmentEnds(d) ==
  {c \in 1..Len(d) : d[c] = "]" /\ SegmentOpen(d, c) # 0 /\ SegmentOpen(d, c) < c - 1}

\* the content of the segment that ends at c
Part(d, c) == SubSeq(d, SegmentOpen(d, c) + 1, c - 1)

\* the positions of "=" in a content
Equals(part) == {i \in 1..Len(part) : part[i] = "="}

FirstEquals(part) == CHOOSE e \in Equals(part) : \A x \in Equals(part) : e <= x

\* the key and the value that the claim gives to a segment
KeyOfPart(part) ==
  IF Equals(part) = {} THEN trim(part) ELSE trim(SubSeq(part, 1, FirstEquals(part) - 1))

ValueOfPart(part) ==
  IF Equals(part) = {} THEN TrueValue
  ELSE trim(SubSeq(part, FirstEquals(part) + 1, Len(part)))

\* the text is absent: no text predicate takes it, as textMatches answers for
\* a candidate that is null
TextAbsent(text) ==
  \A matcher \in {TextEquals(<<>>), TextContains(<<>>), TextRegex(PatternEmpty, <<>>)} :
    textMatches(text, matcher) = "false"

\* the line has no leading word, no quoted segment and no bracketed segment
Malformed(d) == LeadingWord(d) = 0 /\ ~HasQuotedSegment(d) /\ SegmentEnds(d) = {}

\* C22: parseDescriptor returns a descriptor for every line; its role is the
\* leading run of word characters, "generic" when there is none; a line
\* without a leading word, a quoted segment and a bracketed segment gives the
\* generic role, an absent text and no attributes
C22_TotalAndRole ==
  IsParseCall =>
    /\ DOMAIN lastResult = {"role", "text", "attributes"}
    /\ lastResult.role = IF LeadingWord(Line) = 0 THEN GenericRole
                         ELSE SubSeq(Line, 1, LeadingWord(Line))
    /\ Malformed(Line) =>
         /\ lastResult.role = GenericRole
         /\ TextAbsent(lastResult.text)
         /\ lastResult.attributes = EmptyAttrs

\* C23: the text is the first double-quoted segment of the line, wherever it
\* stands, whether or not whitespace precedes it
C23_FirstQuotedSegment ==
  IsParseCall /\ HasQuotedSegment(Line) =>
    lastResult.text = SubSeq(Line, NextQuote(Line, 0) + 1,
                             NextQuote(Line, NextQuote(Line, 0)) - 1)

\* the double quotes that open a text: whitespace stands before the quote, a
\* character other than a double quote after it, and a double quote later
TextOpens(d) ==
  {j \in Quotes(d) : /\ j > 1 /\ d[j - 1] \in Whitespace
                     /\ j < Len(d) /\ d[j + 1] # Quote
                     /\ \E k \in Quotes(d) : k > j}

\* C23 as amended: the text is what stands between the first double quote
\* that whitespace precedes and a non-empty content follows, and the double
\* quote after it; for a line without such a quote the text is the empty string
C23_FirstQuotedAfterBlank ==
  IsParseCall =>
    IF TextOpens(Line) = {} THEN Len(lastResult.text) = 0
    ELSE LET j == CHOOSE x \in TextOpens(Line) : \A y \in TextOpens(Line) : x <= y
         IN  lastResult.text = SubSeq(Line, j + 1, NextQuote(Line, j) - 1)

\* a text was taken that is not the first quoted segment of the line
C23_Witness ==
  /\ IsParseCall
  /\ Line = LineQuoteInAttr
  /\ lastResult.text = <<"H","o","m","e">>

----------------------------------------------------------------------------
(* buildNodes                                                              *)

\* buildNodes was called
IsBuildCall == lastCall.call.op = "buildNodes"

\* the value and every value inside it
RECURSIVE SubValues(_)
SubValues(v) ==
  {v} \cup
    (IF v.t = "array" THEN UNION {SubValues(v.items[i]) : i \in DOMAIN v.items}
     ELSE IF v.t = "object" THEN UNION {SubValues(v.vals[i]) : i \in DOMAIN v.vals}
     ELSE {})

\* a mapping with one key that does not start with "/"
SingleDescriptorKey(v) ==
  v.t = "object" /\ Len(v.keys) = 1 /\ ~(Len(v.keys[1]) > 0 /\ v.keys[1][1] = "/")

\* the node of a descriptor line with the given children
NodeOf(line, children) ==
  [role |-> parseDescriptor(line).role, text |-> parseDescriptor(line).text,
   attributes |-> parseDescriptor(line).attributes, children |-> children,
   rawDescriptor |-> line]

\* the forests of the first n items of a list, one after the other
RECURSIVE ForestsOf(_, _)
ForestsOf(items, n) ==
  IF n = 0 THEN <<>> ELSE ForestsOf(items, n - 1) \o buildNodes(items[n])

\* C25: every mapping with a single key that does not start with "/" becomes
\* one node: the key is parsed as the descriptor and the value is built as
\* the children, whatever the value is
C25_SingleKeyObject ==
  IsBuildCall =>
    \A v \in SubValues(lastCall.call.input) :
      SingleDescriptorKey(v) =>
        buildNodes(v) = <<NodeOf(v.keys[1], buildNodes(v.vals[1]))>>

\* C26: a string becomes one leaf that keeps the string as rawDescriptor, a
\* list becomes the forests of its items one after the other, and a mapping
\* with a key that starts with "/", with no key or with several keys, and a
\* number, boolean or null give no node
C26_StringsListsAndOthers ==
  IsBuildCall =>
    /\ lastResult.forests[1] = buildNodes(lastCall.call.input)
    /\ \A v \in SubValues(lastCall.call.input) :
         /\ v.t = "string" => buildNodes(v) = <<NodeOf(v.s, <<>>)>>
         /\ v.t = "array" => buildNodes(v) = ForestsOf(v.items, Len(v.items))
         /\ v.t = "other" => buildNodes(v) = <<>>
         /\ (v.t = "object" /\ Len(v.keys) # 1) => buildNodes(v) = <<>>
         /\ (v.t = "object" /\ Len(v.keys) = 1 /\ ~SingleDescriptorKey(v)) =>
              buildNodes(v) = <<>>

\* a list of a property mapping and a descriptor mapping with children gave
\* one node with one child
C26_Witness ==
  /\ IsBuildCall
  /\ lastCall.call.input.t = "array"
  /\ Len(lastCall.call.input.items) = 2
  /\ lastCall.call.input.items[1] = YMap(<<LineUrl>>, <<YList(<<YStr(LineRowB)>>)>>)
  /\ lastCall.call.input.items[2].t = "object"
  /\ Len(lastResult.forests[1]) = 1
  /\ Len(lastResult.forests[1][1].children) = 1

----------------------------------------------------------------------------
(* The filter call and the variable store                                  *)

\* the store after the step differs from the store before in the entry of
\* name only, which holds value
OnlySet(name, value) ==
  /\ DOMAIN variables' = (DOMAIN variables) \cup {name}
  /\ variables'[name] = value
  /\ \A n \in (DOMAIN variables) \ {name} : variables'[n] = variables[n]

\* the step leaves the entry of name as it is: set to the same value, or not set
SameEntry(name) ==
  /\ name \in DOMAIN variables' <=> name \in DOMAIN variables
  /\ name \in DOMAIN variables => variables'[name] = variables[name]

=============================================================================
